---- MODULE Spec2Model ----
(***************************************************************************)
(* angular-doctor: the scorer (calculate-score.ts), the ignore filter      *)
(* (filter-diagnostics.ts) and combineDiagnostics, as scan.ts uses them;   *)
(* then scan itself with the command-line loop that calls it (cli.ts),     *)
(* loadConfig, selectProjects, getDiffInfo, runKnip (run-knip.ts),         *)
(* discoverProject, and the action of the command with resolveDiffMode and *)
(* its loop over the selected projects.                                    *)
(*                                                                         *)
(* An optional value is a sequence: <<>> for undefined, <<v>> for v.       *)
(*                                                                         *)
(* Strings are sequences of one-character strings, so that template        *)
(* literals, String.replace and RegExp.test are computed character by      *)
(* character.  Penalties are kept in hundredths (1.5 -> 150, 0.75 -> 75):   *)
(* every penalty is a multiple of 0.75 and is exact in binary floating     *)
(* point, so the fixed-point arithmetic is the arithmetic of the code.     *)
(***************************************************************************)
EXTENDS Integers, Sequences, FiniteSets, TLC

VARIABLES
    lintDiagnostics,      \* scan: what runLint returned
    deadCodeDiagnostics,  \* scan: what runDeadCode returned
    userConfig,           \* scan: loadConfig(directory), NullConfig for null
    pc,                   \* scan: "analyzed", then "combined", or "threw" when
                          \* combineDiagnostics throws ("idle" outside a scan)
    diagnostics,    \* scan: the result of combineDiagnostics, handed to calculateScore
    scoreResult,    \* scan: its ScoreResult, NoScore before it is scored
    filePath,       \* matchesGlob: the diagnostic's file path
    pattern,        \* matchesGlob: the ignore.files pattern
    matchResult,    \* matchesGlob: "pending", then "true", "false" or "SyntaxError"
    flags,            \* cli: the options given on the command line
    configAt,         \* what loadConfig returns for the root and for the project directory
    isDiffMode,       \* cli: the outcome of resolveDiffMode
    projectDiffInfo,  \* cli: getDiffInfo(projectDirectory, explicitBaseBranch)
    directory,        \* cli: the project directory of the iteration, "root" or "project"
    projectInfo,      \* scan: discoverProject(directory)
    tools,            \* what ESLint and knip do on this project when they are run
    inputOptions,     \* scan: the ScanOptions it is called with
    options,          \* scan: mergeScanOptions(inputOptions, userConfig)
    scanPc,           \* "cli", "scan", "analyzing", then "returned", "threw" or "skipped"
    lintState,        \* runLint(): "pending", "running", "done"
    deadCodeState,    \* runDeadCode(): "pending", "running", "done"
    eslintCall,       \* the call of runEslint that reached ESLint, NoCall if none did
    knipCall,         \* the call of runKnip, NoCall if there was none
    didLintFail,      \* scan: its local of that name
    didDeadCodeFail,  \* scan: its local of that name
    skippedChecks,    \* scan: the skippedChecks of its ScanResult
    terminal,         \* scan: what it printed after the analyzers, in order
    markdownReport,   \* scan: the sections of the markdown report, <<>> if none was written
    markdownPath,     \* scan: where that report was written, <<>> if none was written
    shownGroups,      \* scan: the rule groups as printed, as written to the summary
                      \* files and as listed in the report, each in its order
    workspace,        \* selectProjects: the workspace manifests found on disk
    projectFlag,      \* selectProjects: the --project value
    skipPrompts,      \* selectProjects: the non-interactive flag
    selection,        \* selectProjects: its outcome
    git,              \* getDiffInfo: the answers of the four git queries in the directory
    explicitBaseBranch, \* getDiffInfo: its optional argument
    gitCalls,         \* getDiffInfo: the git queries it made, in order
    diffInfo,         \* getDiffInfo: its result
    disk,             \* loadConfig: the config file and the manifest of the directory
    loadResult,       \* loadConfig: its outcome
    warnings,         \* loadConfig: the console.warn calls it made
    knipRoot,         \* runKnip: its rootDirectory, a list of path segments below "/"
    angularJsonAt,    \* the directories that hold an angular.json
    nodeModules,      \* whether rootDirectory holds a node_modules directory
    engineIssues,     \* the issues knip reports when a run of it succeeds
    knipPc,           \* runKnip: "start", "searching", "attempting", "returned", "threw"
    current,          \* findAngularWorkspaceRoot: its local of that name
    workspaceRoot,    \* what findAngularWorkspaceRoot returned, <<>> for null
    attempt,          \* runKnipWithOptions: the loop counter
    engineCalls,      \* how many times main(options) was called
    disabledPlugins,  \* the plugins set to false in parsedConfig
    knipResult,       \* what runKnip returned, or the error it threw
    invocation,       \* cli action: the --diff value, the root configuration's diff,
                      \* shouldSkipPrompts, isScoreOnly and projectDirectories
    repositories,     \* cli action: the answers of git in the root and in each project
    actionPc,         \* cli action: "resolving", "looping", "done" or "exited"
    effectiveDiff,    \* cli action: its local of that name, <<>> for undefined
    diffMode,         \* cli action: what resolveDiffMode returned
    position,         \* cli action: how many projectDirectories the for loop has taken
    running,          \* the projectDirectories whose scan was called and has not settled
    effects,          \* the calls of scan, what cli and scan printed and wrote, and
                      \* the returns of scan, in order
    manifestAt,       \* discoverProject: the package.json of each directory, <<>> if none
    discoverDirectory, \* discoverProject: its argument, a list of path segments
    discovered        \* discoverProject: the ProjectInfo it returned, or the error

combineVars == <<lintDiagnostics, deadCodeDiagnostics, userConfig, pc>>
scoreVars == <<diagnostics, scoreResult>>
globVars == <<filePath, pattern, matchResult>>
cliVars == <<flags, configAt, isDiffMode, projectDiffInfo, directory, projectInfo, tools>>
scanVars == <<inputOptions, options, scanPc, lintState, deadCodeState, eslintCall, knipCall,
              didLintFail, didDeadCodeFail, skippedChecks, terminal, markdownReport,
                   markdownPath, shownGroups>>
actionVars == <<invocation, repositories, actionPc, effectiveDiff, diffMode, position,
               running, effects>>
discoverVars == <<manifestAt, discoverDirectory, discovered>>
knipVars == <<knipRoot, angularJsonAt, nodeModules, engineIssues, knipPc, current,
             workspaceRoot, attempt, engineCalls, disabledPlugins, knipResult>>
resolverVars == <<workspace, projectFlag, skipPrompts, selection,
                  git, explicitBaseBranch, gitCalls, diffInfo,
                  disk, loadResult, warnings,
                  knipVars, actionVars, discoverVars>>
vars == <<lintDiagnostics, deadCodeDiagnostics, userConfig, pc,
          diagnostics, scoreResult, filePath, pattern, matchResult,
          cliVars, scanVars, resolverVars>>

(***************************************************************************)
(* Bounds                                                                  *)
(***************************************************************************)
MaxErrorRules == 135
MaxWarningRules == 2
MaxListLen == 3
MaxPatternLen == 3
MaxPathLen == 3
MaxLintDiagnostics == 2
MaxDeadCodeDiagnostics == 1
MaxIgnoredFiles == 2

(***************************************************************************)
(* constants.ts                                                            *)
(***************************************************************************)
PERFECT_SCORE == 100
SCORE_GOOD_THRESHOLD == 75
SCORE_OK_THRESHOLD == 50
\* in hundredths: 1.5 and 0.75
ERROR_RULE_PENALTY == 150
WARNING_RULE_PENALTY == 75

(***************************************************************************)
(* Strings                                                                 *)
(***************************************************************************)
DigitChars == <<"0", "1", "2", "3", "4", "5", "6", "7", "8", "9">>

RECURSIVE ToDigits(_)
\* `${i}` for a non-negative integer i
ToDigits(i) ==
    IF i < 10 THEN <<DigitChars[i + 1]>>
    ELSE ToDigits(i \div 10) \o <<DigitChars[(i % 10) + 1]>>

Max(a, b) == IF a >= b THEN a ELSE b

\* Math.round of x100 / 100: the nearest integer, ties towards +Infinity
MathRound(x100) == (x100 + 50) \div 100

(***************************************************************************)
(* types.ts: Diagnostic, ScoreResult                                       *)
(***************************************************************************)
Severities == {"error", "warning"}

Diagnostic(path, plugin, rule, severity) ==
    [filePath |-> path, plugin |-> plugin, rule |-> rule, severity |-> severity]

\* scoreResult: ScoreResult | null
NoScore == [score |-> -1, label |-> "null"]

\* `${diagnostic.plugin}/${diagnostic.rule}`
ruleKey(diagnostic) == diagnostic.plugin \o <<"/">> \o diagnostic.rule

(***************************************************************************)
(* calculate-score.ts                                                      *)
(***************************************************************************)
\* variant: strict comparisons against the thresholds
getScoreLabel_strict(score) ==
    IF score > SCORE_GOOD_THRESHOLD THEN "Great"
    ELSE IF score > SCORE_OK_THRESHOLD THEN "Needs work"
    ELSE "Critical"

getScoreLabel(score) ==
    IF score >= SCORE_GOOD_THRESHOLD THEN "Great"
    ELSE IF score >= SCORE_OK_THRESHOLD THEN "Needs work"
    ELSE "Critical"

\* variant: the severity test never succeeds, every key lands in warningRules
addedRules_allWarnings(diagnostic) ==
    [errorRules |-> {}, warningRules |-> {diagnostic.plugin \o <<"/">> \o diagnostic.rule}]

\* one iteration of the for loop of countUniqueRules: the key it adds, and to which set
addedRules(diagnostic) ==
    IF diagnostic.severity = "error"
    THEN [errorRules |-> {ruleKey(diagnostic)}, warningRules |-> {}]
    ELSE [errorRules |-> {}, warningRules |-> {ruleKey(diagnostic)}]

RECURSIVE rulesBetween(_, _, _)
\* the two sets after the iterations lo..hi of the loop. Set.add is idempotent and
\* order-insensitive, so the range is split in halves to keep the evaluation shallow.
rulesBetween(ds, lo, hi) ==
    IF lo > hi THEN [errorRules |-> {}, warningRules |-> {}]
    ELSE IF lo = hi THEN addedRules(ds[lo])
    ELSE LET mid   == (lo + hi) \div 2
             left  == rulesBetween(ds, lo, mid)
             right == rulesBetween(ds, mid + 1, hi)
         IN  [errorRules |-> left.errorRules \cup right.errorRules,
              warningRules |-> left.warningRules \cup right.warningRules]

\* variant: occurrences are counted instead of distinct rule keys
countUniqueRules_perOccurrence(ds) ==
    [errorRuleCount |-> Cardinality({i \in 1..Len(ds) : ds[i].severity = "error"}),
     warningRuleCount |-> Cardinality({i \in 1..Len(ds) : ds[i].severity # "error"})]

countUniqueRules(ds) ==
    LET sets == rulesBetween(ds, 1, Len(ds))
    IN  [errorRuleCount |-> Cardinality(sets.errorRules),
         warningRuleCount |-> Cardinality(sets.warningRules)]

\* variant: errors weigh no more than warnings
penaltyOf_flat(counts) ==
    (counts.errorRuleCount + counts.warningRuleCount) * WARNING_RULE_PENALTY

\* errorRuleCount * ERROR_RULE_PENALTY + warningRuleCount * WARNING_RULE_PENALTY, in hundredths
penaltyOf(counts) ==
    counts.errorRuleCount * ERROR_RULE_PENALTY + counts.warningRuleCount * WARNING_RULE_PENALTY

calculateScore(ds) ==
    LET penalty == penaltyOf(countUniqueRules(ds))
        score   == Max(0, MathRound(PERFECT_SCORE * 100 - penalty))
    IN  [score |-> score, label |-> getScoreLabel(score)]

(***************************************************************************)
(* filter-diagnostics.ts: matchesGlob.  The pattern goes through three     *)
(* String.replace calls, each applied to the result of the one before, and *)
(* the result is compiled by new RegExp and tested against the path.       *)
(***************************************************************************)
\* the character class /[.+^${}()|[\]\\]/ of the first replace
EscapedChars == {".", "+", "^", "$", "{", "}", "(", ")", "|", "[", "]", "\\"}

RECURSIVE escapeFrom(_, _)
\* .replace(/[.+^${}()|[\]\\]/g, "\\$&") from index i on
escapeFrom(s, i) ==
    IF i > Len(s) THEN <<>>
    ELSE (IF s[i] \in EscapedChars THEN <<"\\", s[i]>> ELSE <<s[i]>>) \o escapeFrom(s, i + 1)

RECURSIVE replaceStarStarFrom(_, _)
\* .replace(/\*\*/g, ".*") from index i on: leftmost, non-overlapping pairs of stars
replaceStarStarFrom(s, i) ==
    IF i > Len(s) THEN <<>>
    ELSE IF s[i] = "*" /\ i < Len(s) /\ s[i + 1] = "*"
         THEN <<".", "*">> \o replaceStarStarFrom(s, i + 2)
         ELSE <<s[i]>> \o replaceStarStarFrom(s, i + 1)

RECURSIVE replaceStarFrom(_, _)
\* .replace(/\*/g, "[^/]*") from index i on: every star the string holds by now
replaceStarFrom(s, i) ==
    IF i > Len(s) THEN <<>>
    ELSE (IF s[i] = "*" THEN <<"[", "^", "/", "]", "*">> ELSE <<s[i]>>)
         \o replaceStarFrom(s, i + 1)

\* const escapedPattern = pattern.replace(..).replace(..).replace(..)
escapedPattern(pat) == replaceStarFrom(replaceStarStarFrom(escapeFrom(pat, 1), 1), 1)

\* variant: the expression is compiled without the ^ and $ anchors
regExpSource_unanchored(pat) == escapedPattern(pat)

\* `^${escapedPattern}$`
regExpSource(pat) == <<"^">> \o escapedPattern(pat) \o <<"$">>

(***************************************************************************)
(* new RegExp(source) and RegExp.prototype.test, for the syntax the three  *)
(* replaces can produce: characters, \c escapes, the dot, character        *)
(* classes of plain characters, the assertions ^ and $, and the            *)
(* quantifiers * and ? (a ? after a quantifier makes it lazy).             *)
(***************************************************************************)
\* the dot matches every character except the line terminators
LineTerminators == {"\n", "\r", "<LS>", "<PS>"}

AtomToken(neg, chars) == [kind |-> "atom", neg |-> neg, chars |-> chars, text |-> ""]
AssertToken(c) == [kind |-> "assert", neg |-> FALSE, chars |-> {}, text |-> c]
QuantToken(c) == [kind |-> "quant", neg |-> FALSE, chars |-> {}, text |-> c]
BadToken == [kind |-> "bad", neg |-> FALSE, chars |-> {}, text |-> ""]

\* the index of the first "]" at or after i, 0 if there is none
ClassEnd(src, i) ==
    IF \E j \in i..Len(src) : src[j] = "]"
    THEN CHOOSE j \in i..Len(src) : src[j] = "]" /\ \A k \in i..(j - 1) : src[k] # "]"
    ELSE 0

RECURSIVE tokensFrom(_, _)
\* the tokens of the regular expression source from index i on
tokensFrom(src, i) ==
    IF i > Len(src) THEN <<>>
    ELSE IF src[i] = "\\"
         THEN IF i = Len(src) THEN <<BadToken>>
              ELSE <<AtomToken(FALSE, {src[i + 1]})>> \o tokensFrom(src, i + 2)
    ELSE IF src[i] = "["
         THEN LET neg   == i < Len(src) /\ src[i + 1] = "^"
                  first == IF neg THEN i + 2 ELSE i + 1
                  end   == ClassEnd(src, first)
              IN  IF end = 0 THEN <<BadToken>>
                  ELSE <<AtomToken(neg, {src[j] : j \in first..(end - 1)})>>
                       \o tokensFrom(src, end + 1)
    ELSE IF src[i] = "."
         THEN <<AtomToken(TRUE, LineTerminators)>> \o tokensFrom(src, i + 1)
    ELSE IF src[i] \in {"^", "$"}
         THEN <<AssertToken(src[i])>> \o tokensFrom(src, i + 1)
    ELSE IF src[i] \in {"*", "?", "+"}
         THEN <<QuantToken(src[i])>> \o tokensFrom(src, i + 1)
    ELSE IF src[i] \in {"(", ")", "|", "{", "}", "]"}
         THEN <<BadToken>>
    ELSE <<AtomToken(FALSE, {src[i]})>> \o tokensFrom(src, i + 1)

\* a quantifier needs an atom right before it; a ? may also follow a quantifier that
\* follows an atom (lazy). Anything else is "Nothing to repeat".
IsLazyMark(toks, k) ==
    /\ toks[k].kind = "quant" /\ toks[k].text = "?"
    /\ k > 2 /\ toks[k - 1].kind = "quant" /\ toks[k - 2].kind = "atom"

ValidTokens(toks) ==
    \A k \in 1..Len(toks) :
        /\ toks[k].kind # "bad"
        /\ toks[k].kind = "quant" =>
              \/ (k > 1 /\ toks[k - 1].kind = "atom")
              \/ IsLazyMark(toks, k)

\* new RegExp(source): the token list, or <<BadToken>> when it throws a SyntaxError
newRegExp(src) ==
    LET toks == tokensFrom(src, 1)
    IN  IF ValidTokens(toks) THEN toks ELSE <<BadToken>>

charMatches(atom, c) == IF atom.neg THEN c \notin atom.chars ELSE c \in atom.chars

\* the positions of str the matcher can be at after the quantified atom, from those in at
afterAtom(atom, quant, str, at) ==
    LET n == Len(str)
        one == {q \in 1..n : (q - 1) \in at /\ charMatches(atom, str[q])}
        many(least) ==
            {q \in 0..n : \E p \in at :
                /\ p + least <= q
                /\ \A j \in (p + 1)..q : charMatches(atom, str[j])}
    IN  CASE quant = ""  -> one
          [] quant = "?" -> at \cup one
          [] quant = "*" -> many(0)
          [] quant = "+" -> many(1)

RECURSIVE positionsFrom(_, _, _, _)
\* the positions after the tokens k.. of the expression, from those in at
positionsFrom(toks, k, str, at) ==
    IF at = {} \/ k > Len(toks) THEN at
    ELSE IF toks[k].kind = "assert"
         THEN positionsFrom(toks, k + 1, str,
                            at \cap (IF toks[k].text = "^" THEN {0} ELSE {Len(str)}))
    ELSE \* an atom, with the quantifier and the lazy mark that may follow it
         LET quantified == k < Len(toks) /\ toks[k + 1].kind = "quant"
             lazy  == quantified /\ k + 1 < Len(toks) /\ toks[k + 2].kind = "quant"
             quant == IF quantified THEN toks[k + 1].text ELSE ""
             next  == IF lazy THEN k + 3 ELSE IF quantified THEN k + 2 ELSE k + 1
         IN  positionsFrom(toks, next, str, afterAtom(toks[k], quant, str, at))

\* regExp.test(str): some substring of str matches (the search may start anywhere)
regExpTest(toks, str) == positionsFrom(toks, 1, str, 0..Len(str)) # {}

\* matchesGlob(filePath, pattern): "true", "false", or "SyntaxError" when new RegExp throws
matchesGlob(path, pat) ==
    LET regExp == newRegExp(regExpSource(pat))
    IN  IF regExp = <<BadToken>> THEN "SyntaxError"
        ELSE IF regExpTest(regExp, path) THEN "true" ELSE "false"

(***************************************************************************)
(* filter-diagnostics.ts: filterIgnoredDiagnostics, and combineDiagnostics *)
(***************************************************************************)
\* AngularDoctorConfig | null. rules and files are <<>> where the JSON leaves them out
\* (config.ignore?.rules ?? [], config.ignore?.files ?? []).
NullConfig == [isNull |-> TRUE, rules |-> <<>>, files |-> <<>>]
Config(rules, files) == [isNull |-> FALSE, rules |-> rules, files |-> files]

RECURSIVE someMatchesFrom(_, _, _)
\* ignoredFilePatterns.some((pattern) => matchesGlob(path, pattern)), from index i on:
\* the patterns are tried in order up to the first that matches or throws
someMatchesFrom(path, files, i) ==
    IF i > Len(files) THEN "false"
    ELSE LET m == matchesGlob(path, files[i])
         IN  IF m = "false" THEN someMatchesFrom(path, files, i + 1) ELSE m

\* the filter callback: "true" keeps the diagnostic, "false" drops it
keepsDiagnostic(diagnostic, config) ==
    LET ignoredRules == {config.rules[i] : i \in 1..Len(config.rules)}
    IN  IF ruleKey(diagnostic) \in ignoredRules THEN "false"
        ELSE LET some == someMatchesFrom(diagnostic.filePath, config.files, 1)
             IN  IF some = "true" THEN "false"
                 ELSE IF some = "false" THEN "true"
                 ELSE some

\* a returned list, and a thrown SyntaxError
Returned(list) == [threw |-> FALSE, value |-> list]
Thrown == [threw |-> TRUE, value |-> <<>>]

RECURSIVE filterFrom(_, _, _)
\* diagnostics.filter(callback) from index i on; a throwing callback ends the call
filterFrom(ds, i, config) ==
    IF i > Len(ds) THEN Returned(<<>>)
    ELSE LET keep == keepsDiagnostic(ds[i], config)
         IN  IF keep = "SyntaxError" THEN Thrown
             ELSE LET rest == filterFrom(ds, i + 1, config)
                  IN  IF rest.threw THEN Thrown
                      ELSE Returned((IF keep = "true" THEN <<ds[i]>> ELSE <<>>) \o rest.value)

filterIgnoredDiagnostics(ds, config) == filterFrom(ds, 1, config)

\* combineDiagnostics with the dead-code findings ahead of the lint findings
combineDiagnostics_deadCodeFirst(lint, deadCode, config) ==
    LET allDiagnostics == deadCode \o lint
    IN  IF config.isNull THEN Returned(allDiagnostics)
        ELSE filterIgnoredDiagnostics(allDiagnostics, config)

combineDiagnostics(lint, deadCode, config) ==
    LET allDiagnostics == lint \o deadCode
    IN  IF config.isNull THEN Returned(allDiagnostics)
        ELSE filterIgnoredDiagnostics(allDiagnostics, config)

(***************************************************************************)
(* Inputs of the scorer, built as tests/calculate-score.test.ts builds     *)
(* them: makeDiagnostic and Array.from({length: n}, rule-${i}).            *)
(***************************************************************************)
Str_test == <<"t", "e", "s", "t">>
Str_app == <<"s", "r", "c", "/", "a", ".", "t", "s">>
Str_rule == <<"r", "u", "l", "e", "-">>

makeDiagnostic(severity, rule, plugin) == Diagnostic(Str_app, plugin, rule, severity)

\* n diagnostics of one severity with the distinct rules rule-first .. rule-(first+n-1)
manyDiagnostics(severity, first, n) ==
    [i \in 1..n |-> makeDiagnostic(severity, Str_rule \o ToDigits(first + i - 1), Str_test)]

\* the diagnostics of the short lists: rule-0 and rule-x in both severities, and two
\* plugin/rule pairs with the same key test/a/b
ExtraDiagnostics ==
    { makeDiagnostic(s, Str_rule \o <<"0">>, Str_test) : s \in Severities }
    \cup { makeDiagnostic(s, Str_rule \o <<"x">>, Str_test) : s \in Severities }
    \cup { makeDiagnostic("error", <<"a", "/", "b">>, Str_test),
           makeDiagnostic("error", <<"b">>, Str_test \o <<"/", "a">>) }

\* every list of at most MaxListLen of them
ShortLists == UNION { [1..n -> ExtraDiagnostics] : n \in 0..MaxListLen }

\* e errors rule-0 .. rule-(e-1) followed by w warnings rule-e .. rule-(e+w-1)
LongLists ==
    { manyDiagnostics("error", 0, e) \o manyDiagnostics("warning", e, w) :
        e \in 0..MaxErrorRules, w \in 0..MaxWarningRules }

(***************************************************************************)
(* Inputs of matchesGlob: every short pattern and path over a small        *)
(* alphabet, and the patterns and paths of the README and of the glob      *)
(* scenarios.                                                              *)
(***************************************************************************)
PatternChars == {"a", "/", ".", "*", "?"}
PathChars == {"a", "/", ".", "?"}

Patterns == UNION { [1..n -> PatternChars] : n \in 0..MaxPatternLen }
Paths == UNION { [1..n -> PathChars] : n \in 0..MaxPathLen }

\* "src/generated/**" and "*.spec.ts"
Str_generatedAll ==
    <<"s", "r", "c", "/", "g", "e", "n", "e", "r", "a", "t", "e", "d", "/", "*", "*">>
Str_specFiles == <<"*", ".", "s", "p", "e", "c", ".", "t", "s">>
\* "src/generated/a/b.ts", "src/generated/x.ts", "src/other/x.ts"
Str_generatedDeep ==
    <<"s", "r", "c", "/", "g", "e", "n", "e", "r", "a", "t", "e", "d", "/",
      "a", "/", "b", ".", "t", "s">>
Str_generatedFlat ==
    <<"s", "r", "c", "/", "g", "e", "n", "e", "r", "a", "t", "e", "d", "/", "x", ".", "t", "s">>
Str_otherFile == <<"s", "r", "c", "/", "o", "t", "h", "e", "r", "/", "x", ".", "t", "s">>
\* "a.spec.ts", "sub/a.spec.ts"
Str_specTop == <<"a", ".", "s", "p", "e", "c", ".", "t", "s">>
Str_specSub == <<"s", "u", "b", "/", "a", ".", "s", "p", "e", "c", ".", "t", "s">>

ExamplePatterns == {Str_generatedAll, Str_specFiles}
ExamplePaths == {Str_generatedDeep, Str_generatedFlat, Str_otherFile, Str_specTop, Str_specSub}

ScoreIdle == diagnostics = <<>> /\ scoreResult = NoScore
GlobIdle == filePath = <<>> /\ pattern = <<>> /\ matchResult = "pending"

(***************************************************************************)
(* Inputs of combineDiagnostics: lint and dead-code findings in two files  *)
(* under two plugins and rules, with two plugin/rule pairs sharing a key,  *)
(* and configurations ignoring rule keys and file patterns.                *)
(***************************************************************************)
Str_a == <<"a">>
Str_aSlashA == <<"a", "/", "a">>

LintFindings ==
    { Diagnostic(f, <<"p">>, r, "error") : f \in {Str_a, Str_aSlashA}, r \in {<<"r">>, <<"q">>} }
    \cup { Diagnostic(Str_a, <<"p", "/", "q">>, <<"r">>, "error"),
           Diagnostic(Str_a, <<"p">>, <<"q", "/", "r">>, "error") }

DeadCodeFindings ==
    { Diagnostic(f, <<"k">>, <<"r">>, "warning") : f \in {Str_a, Str_aSlashA} }

IgnoredRuleLists == { <<>>, << <<"p", "/", "r">> >>, << <<"p", "/", "q", "/", "r">>, <<"k", "/", "r">> >> }

IgnoredFilePatterns == { <<"a">>, <<"*">>, <<"*", "*">>, <<"?", "a">> }
IgnoredFileLists == UNION { [1..n -> IgnoredFilePatterns] : n \in 0..MaxIgnoredFiles }

Configs ==
    {NullConfig} \cup { Config(rules, files) : rules \in IgnoredRuleLists, files \in IgnoredFileLists }

CombineIdle ==
    /\ lintDiagnostics = <<>> /\ deadCodeDiagnostics = <<>>
    /\ userConfig = NullConfig /\ pc = "idle"

(***************************************************************************)
(* The values the variables of scan, of the command-line loop, of          *)
(* selectProjects, of getDiffInfo and of loadConfig hold while another     *)
(* part of the program is the one being run.                               *)
(***************************************************************************)
\* a value of type boolean | string, as ScanOptions.report is
BooleanValue(b) == [type |-> "boolean", flag |-> b, text |-> <<>>]
StringValue(str) == [type |-> "string", flag |-> FALSE, text |-> str]

\* scan printed no rule group and wrote none
NoGroups == [terminal |-> <<>>, files |-> <<>>, markdown |-> <<>>]

\* CliFlags with nothing given on the command line
NoFlags ==
    [noLint |-> FALSE, noDeadCode |-> FALSE, verbose |-> FALSE, score |-> FALSE,
     report |-> FALSE]

\* ScanOptions with every field undefined: scan's default argument {}
NoOptions ==
    [lint |-> <<>>, deadCode |-> <<>>, verbose |-> <<>>, fast |-> <<>>,
     scoreOnly |-> <<>>, report |-> <<>>, includePaths |-> <<>>]

\* getDiffInfo returning null
NoDiff == [isNull |-> TRUE]

\* "a.ts"
Str_fileTs == <<"a", ".", "t", "s">>

\* an Angular project with a tsconfig.json, ESLint and knip each reporting one finding
AngularProject == [angularVersion |-> <<"17">>, hasTypeScript |-> TRUE]
QuietTools ==
    [eslint |-> [outcome |-> "ok", findings |-> <<Diagnostic(Str_fileTs, <<"p">>, <<"r">>, "error")>>],
     knip |-> [outcome |-> "ok", findings |-> <<Diagnostic(Str_fileTs, <<"k">>, <<"r">>, "warning")>>]]

\* scan before its first statement
ScanFresh ==
    /\ options = NoOptions
    /\ lintState = "pending" /\ deadCodeState = "pending"
    /\ eslintCall = "none" /\ knipCall = "none"
    /\ didLintFail = FALSE /\ didDeadCodeFail = FALSE
    /\ skippedChecks = <<>> /\ terminal = <<>> /\ markdownReport = <<>>
    /\ markdownPath = <<>> /\ shownGroups = NoGroups

ScanIdle ==
    /\ flags = NoFlags /\ configAt = [d \in {"root", "project"} |-> NullConfig]
    /\ isDiffMode = FALSE /\ projectDiffInfo = NoDiff /\ directory = "root"
    /\ projectInfo = AngularProject /\ tools = QuietTools
    /\ inputOptions = NoOptions /\ scanPc = "idle" /\ ScanFresh

ActionIdle ==
    /\ invocation = [diffCli |-> <<>>, diffConfig |-> <<>>, shouldSkipPrompts |-> FALSE,
                     isScoreOnly |-> FALSE, projectDirectories |-> <<>>]
    /\ repositories = <<>> /\ actionPc = "idle" /\ effectiveDiff = <<>>
    /\ diffMode = [kind |-> "pending"] /\ position = 0 /\ running = {} /\ effects = <<>>

DiscoverIdle ==
    /\ manifestAt = <<>> /\ discoverDirectory = <<>> /\ discovered = [kind |-> "pending"]

KnipIdle ==
    /\ knipRoot = <<>> /\ angularJsonAt = {} /\ nodeModules = FALSE
    /\ engineIssues = [files |-> <<>>, exports |-> <<>>, types |-> <<>>, duplicates |-> <<>>]
    /\ knipPc = "idle" /\ current = <<>> /\ workspaceRoot = [kind |-> "pending"]
    /\ attempt = 0 /\ engineCalls = 0 /\ disabledPlugins = {}
    /\ knipResult = [kind |-> "pending"]

ResolversIdle ==
    /\ workspace = [angularProjects |-> <<>>, packageJson |-> FALSE, entries |-> <<>>]
    /\ projectFlag = <<>> /\ skipPrompts = FALSE /\ selection = [kind |-> "pending"]
    /\ git = [head |-> <<>>, branches |-> {}, changed |-> {}, status |-> <<>>]
    /\ explicitBaseBranch = <<>> /\ gitCalls = <<>> /\ diffInfo = [kind |-> "pending"]
    /\ disk = [configFile |-> <<>>, packageJson |-> <<>>]
    /\ loadResult = [kind |-> "pending"] /\ warnings = <<>>
    /\ KnipIdle /\ ActionIdle /\ DiscoverIdle

(***************************************************************************)
(* matchesGlob as a state machine: one diagnostic path against one pattern *)
(***************************************************************************)
InitGlob ==
    /\ pattern \in Patterns \cup ExamplePatterns
    /\ filePath \in Paths \cup ExamplePaths
    /\ matchResult = "pending"
    /\ ScoreIdle
    /\ CombineIdle
    /\ ScanIdle /\ ResolversIdle

\* ignoredFilePatterns.some((pattern) => matchesGlob(diagnostic.filePath, pattern))
MatchGlob ==
    /\ matchResult = "pending"
    /\ matchResult' = matchesGlob(filePath, pattern)
    /\ UNCHANGED <<filePath, pattern, scoreVars, combineVars>>
    /\ UNCHANGED <<cliVars, scanVars, resolverVars>>

NextGlob == MatchGlob

SpecGlob == InitGlob /\ [][NextGlob]_vars

(***************************************************************************)
(* scan, from the combined diagnostics to the ScoreResult: the state after  *)
(* combineDiagnostics returned the list (here, of lint findings with no    *)
(* configuration), and the step that scores it.                            *)
(***************************************************************************)
InitScore ==
    /\ diagnostics \in ShortLists \cup LongLists
    /\ scoreResult = NoScore
    /\ lintDiagnostics = diagnostics /\ deadCodeDiagnostics = <<>>
    /\ userConfig = NullConfig /\ pc = "combined"
    /\ GlobIdle
    /\ ScanIdle /\ ResolversIdle

\* scan.ts: const scoreResult = calculateScore(diagnostics)
Score ==
    /\ pc = "combined"
    /\ scoreResult = NoScore
    /\ scoreResult' = calculateScore(diagnostics)
    /\ UNCHANGED <<diagnostics, combineVars, globVars>>
    /\ UNCHANGED <<cliVars, scanVars, resolverVars>>

NextScore == Score

SpecScore == InitScore /\ [][NextScore]_vars

(***************************************************************************)
(* scan, from the analyzers' results to the combined diagnostics           *)
(***************************************************************************)
InitCombine ==
    /\ lintDiagnostics \in UNION { [1..n -> LintFindings] : n \in 0..MaxLintDiagnostics }
    /\ deadCodeDiagnostics \in
          UNION { [1..n -> DeadCodeFindings] : n \in 0..MaxDeadCodeDiagnostics }
    /\ userConfig \in Configs
    /\ pc = "analyzed"
    /\ ScoreIdle
    /\ GlobIdle
    /\ ScanIdle /\ ResolversIdle

\* scan.ts: const diagnostics = combineDiagnostics(lintDiagnostics, deadCodeDiagnostics,
\* userConfig); a throw leaves scan without diagnostics
Combine ==
    /\ pc = "analyzed"
    /\ LET result == combineDiagnostics(lintDiagnostics, deadCodeDiagnostics, userConfig)
       IN  /\ pc' = IF result.threw THEN "threw" ELSE "combined"
           /\ diagnostics' = result.value
    /\ UNCHANGED <<lintDiagnostics, deadCodeDiagnostics, userConfig, scoreResult, globVars>>
    /\ UNCHANGED <<cliVars, scanVars, resolverVars>>

NextCombine == Combine \/ Score

SpecCombine == InitCombine /\ [][NextCombine]_vars

(***************************************************************************)
(* Properties of the scorer                                                *)
(***************************************************************************)
Scored == scoreResult # NoScore

ErrorsOf(ds) == {i \in 1..Len(ds) : ds[i].severity = "error"}
WarningsOf(ds) == {i \in 1..Len(ds) : ds[i].severity = "warning"}
RuleKeysAt(ds, idx) == {ruleKey(ds[i]) : i \in idx}
RuleKeysOf(ds) == RuleKeysAt(ds, 1..Len(ds))

\* max(0, round(100 - (1.5*E + 0.75*W))): the integer nearest to 100 - penalty
\* (a tie goes up, as Math.round does), and 0 when that is negative
ContractScore(E, W) ==
    LET x100 == 10000 - (150 * E + 75 * W)
    IN  IF x100 < 50 THEN 0
        ELSE CHOOSE s \in 0..100 : 100 * s - 50 <= x100 /\ x100 < 100 * s + 50

RuleA == Str_rule \o <<"0">>
RuleB == Str_rule \o <<"x">>
\* [{error, ruleA}, {error, ruleA}, {warning, ruleB}]
ScenarioList ==
    << makeDiagnostic("error", RuleA, Str_test),
       makeDiagnostic("error", RuleA, Str_test),
       makeDiagnostic("warning", RuleB, Str_test) >>

\* C1: once a list is scored, its score is max(0, round(100 - (1.5*E + 0.75*W))) with
\* E and W the numbers of distinct rule keys among its errors and among its warnings;
\* the empty list scores 100, and the list [error A, error A, warning B] scores 98, Great.
C1_ScoreIsContract ==
    Scored =>
        /\ scoreResult.score =
              ContractScore(Cardinality(RuleKeysAt(diagnostics, ErrorsOf(diagnostics))),
                            Cardinality(RuleKeysAt(diagnostics, WarningsOf(diagnostics))))
        /\ (Len(diagnostics) = 0 => scoreResult.score = 100)
        /\ (diagnostics = ScenarioList => scoreResult = [score |-> 98, label |-> "Great"])

C1_Witness ==
    /\ diagnostics = ScenarioList
    /\ scoreResult = [score |-> 98, label |-> "Great"]

\* C2: every ScoreResult has an integer score in 0..100, and the label Great iff
\* score >= 75, Needs work iff 50 <= score <= 74, Critical iff score < 50.
C2_ScoreRangeAndLabel ==
    Scored =>
        /\ scoreResult.score \in 0..100
        /\ scoreResult.label \in {"Great", "Needs work", "Critical"}
        /\ (scoreResult.label = "Great" <=> scoreResult.score >= 75)
        /\ (scoreResult.label = "Needs work" <=>
               (50 <= scoreResult.score /\ scoreResult.score <= 74))
        /\ (scoreResult.label = "Critical" <=> scoreResult.score < 50)

C2_Witness ==
    /\ scoreResult = [score |-> 75, label |-> "Great"]
    /\ Len(diagnostics) > 16

\* C3 as stated: appending a diagnostic whose rule key is the key of a diagnostic of
\* the list, whatever its severity, leaves the score unchanged.
C3_AnySeverityKeepsScore ==
    Scored =>
        \A d \in ExtraDiagnostics :
            ruleKey(d) \in RuleKeysOf(diagnostics) =>
                calculateScore(Append(diagnostics, d)).score = scoreResult.score

\* C3 amended: appending a diagnostic whose rule key and severity are those of a
\* diagnostic of the list leaves the score unchanged.
C3_SameSeverityKeepsScore ==
    Scored =>
        \A d \in ExtraDiagnostics :
            (\E i \in 1..Len(diagnostics) :
                 /\ ruleKey(diagnostics[i]) = ruleKey(d)
                 /\ diagnostics[i].severity = d.severity)
            => calculateScore(Append(diagnostics, d)).score = scoreResult.score

\* a scored list holding plugin test, rule a/b, while plugin test/a, rule b (the
\* same key, another diagnostic) can still be appended
C3_Witness ==
    /\ Scored
    /\ \E i \in 1..Len(diagnostics) :
          /\ diagnostics[i].plugin = Str_test
          /\ diagnostics[i].rule = <<"a", "/", "b">>
    /\ \A i \in 1..Len(diagnostics) : diagnostics[i].rule # <<"b">>

AllErrors(ds) == \A i \in 1..Len(ds) : ds[i].severity = "error"

\* C4 as stated: a list of errors only with n >= 1 distinct rule keys scores strictly
\* lower than a list of warnings only with n distinct rule keys.
C4_ErrorsAlwaysLower ==
    (Scored /\ AllErrors(diagnostics) /\ Len(diagnostics) > 0) =>
        scoreResult.score <
            calculateScore(manyDiagnostics("warning", 0,
                                           Cardinality(RuleKeysOf(diagnostics)))).score

\* C4 amended: with n distinct rule keys, the errors-only list never scores higher than
\* the warnings-only list; it scores strictly lower iff 2 <= n <= 132; for n = 1 both
\* score 99 and for n >= 133 both score 0.
C4_ErrorsLowerBetween2And132 ==
    (Scored /\ AllErrors(diagnostics) /\ Len(diagnostics) > 0) =>
        LET n == Cardinality(RuleKeysOf(diagnostics))
            w == calculateScore(manyDiagnostics("warning", 0, n)).score
        IN  /\ scoreResult.score <= w
            /\ (scoreResult.score < w <=> (2 <= n /\ n <= 132))
            /\ (n = 1 => scoreResult.score = 99 /\ w = 99)
            /\ (n >= 133 => scoreResult.score = 0 /\ w = 0)

C4_Witness ==
    /\ Scored
    /\ AllErrors(diagnostics)
    /\ Cardinality(RuleKeysOf(diagnostics)) = 132
    /\ scoreResult.score = 0

\* C5: appending one more copy, or two, of a diagnostic of the list leaves the score
\* and the label unchanged.
C5_DuplicationInvariant ==
    Scored =>
        \A i \in 1..Len(diagnostics) :
            /\ calculateScore(Append(diagnostics, diagnostics[i])) = scoreResult
            /\ calculateScore(diagnostics \o <<diagnostics[i], diagnostics[i]>>) = scoreResult

\* a scored list that already holds a diagnostic twice
C5_Witness ==
    /\ Scored
    /\ scoreResult.score < 100
    /\ \E i, j \in 1..Len(diagnostics) : i < j /\ diagnostics[i] = diagnostics[j]

\* C6: appending an error whose rule key occurs nowhere in the list strictly lowers a
\* score above 0 and leaves a score of 0 at 0.
C6_NewErrorLowersScore ==
    Scored =>
        \A d \in ExtraDiagnostics :
            (d.severity = "error" /\ ruleKey(d) \notin RuleKeysOf(diagnostics)) =>
                LET after == calculateScore(Append(diagnostics, d)).score
                IN  /\ (scoreResult.score > 0 => after < scoreResult.score)
                    /\ (scoreResult.score = 0 => after = 0)

\* a list scoring 1, which the next new error rule takes to the floor
C6_Witness ==
    /\ scoreResult.score = 1
    /\ \E d \in ExtraDiagnostics :
          /\ d.severity = "error"
          /\ ruleKey(d) \notin RuleKeysOf(diagnostics)
          /\ calculateScore(Append(diagnostics, d)).score = 0

(***************************************************************************)
(* Properties of matchesGlob.  GlobMatches is the glob reading the         *)
(* properties are stated in: ** is any run of characters, * any run of     *)
(* characters other than "/", every other character is itself, and the     *)
(* whole path is consumed.                                                 *)
(***************************************************************************)
Matched == matchResult # "pending"

CharsOf(str) == {str[i] : i \in 1..Len(str)}
HasStarStar(pat) == \E i \in 1..(Len(pat) - 1) : pat[i] = "*" /\ pat[i + 1] = "*"

RECURSIVE GlobMatchesFrom(_, _, _, _)
GlobMatchesFrom(pat, i, path, j) ==
    IF i > Len(pat) THEN j > Len(path)
    ELSE IF pat[i] = "*" /\ i < Len(pat) /\ pat[i + 1] = "*"
         THEN \E k \in j..(Len(path) + 1) : GlobMatchesFrom(pat, i + 2, path, k)
    ELSE IF pat[i] = "*"
         THEN \E k \in j..(Len(path) + 1) :
                 /\ \A m \in j..(k - 1) : path[m] # "/"
                 /\ GlobMatchesFrom(pat, i + 1, path, k)
    ELSE j <= Len(path) /\ path[j] = pat[i] /\ GlobMatchesFrom(pat, i + 1, path, j + 1)

GlobMatches(pat, path) == GlobMatchesFrom(pat, 1, path, 1)

AsResult(b) == IF b THEN "true" ELSE "false"

\* the characters of pat before its first star, and after its last star
FirstStar(pat) == CHOOSE i \in 1..Len(pat) : pat[i] = "*" /\ \A k \in 1..(i - 1) : pat[k] # "*"
LastStar(pat) == CHOOSE i \in 1..Len(pat) : pat[i] = "*" /\ \A k \in (i + 1)..Len(pat) : pat[k] # "*"
LiteralHead(pat) == IF "*" \in CharsOf(pat) THEN SubSeq(pat, 1, FirstStar(pat) - 1) ELSE pat
LiteralTail(pat) == IF "*" \in CharsOf(pat) THEN SubSeq(pat, LastStar(pat) + 1, Len(pat)) ELSE pat
StartsWith(str, head) == Len(head) <= Len(str) /\ SubSeq(str, 1, Len(head)) = head
EndsWith(str, tail) ==
    Len(tail) <= Len(str) /\ SubSeq(str, Len(str) - Len(tail) + 1, Len(str)) = tail

\* C7: a pattern with ** matches exactly the paths the glob reading gives it, ** standing
\* for any run of zero or more characters, "/" included; src/generated/** matches
\* src/generated/a/b.ts and src/generated/x.ts and does not match src/other/x.ts.
C7_StarStarCrossesSlash ==
    (Matched /\ HasStarStar(pattern) /\ "?" \notin CharsOf(pattern)) =>
        matchResult = AsResult(GlobMatches(pattern, filePath))

\* C8: with single stars only, the pattern matches exactly the paths the glob reading
\* gives it (* is a run of zero or more characters other than "/", the rest is literal,
\* the whole path is consumed); and whatever the stars, a matched path starts with the
\* pattern's characters before its first star and ends with those after its last star.
\* (Patterns holding a "?" are the subject of C9.)
C8_SingleStarWithinSegment ==
    (Matched /\ "?" \notin CharsOf(pattern)) =>
        /\ ~HasStarStar(pattern) => matchResult = AsResult(GlobMatches(pattern, filePath))
        /\ matchResult = "true" =>
              /\ StartsWith(filePath, LiteralHead(pattern))
              /\ EndsWith(filePath, LiteralTail(pattern))
              /\ Len(LiteralHead(pattern)) + Len(LiteralTail(pattern)) <= Len(filePath)
                    \/ "*" \notin CharsOf(pattern)
        /\ (pattern = Str_specFiles /\ filePath = Str_specTop) => matchResult = "true"
        /\ (pattern = Str_specFiles /\ filePath = Str_specSub) => matchResult = "false"

\* *.spec.ts was tried against sub/a.spec.ts and did not match
C8_Witness ==
    /\ pattern = Str_specFiles
    /\ filePath = Str_specSub
    /\ matchResult = "false"

\* C9: a pattern without * matches a path iff the path is the pattern, character for
\* character, whatever regular-expression metacharacters the pattern holds.
C9_NoStarMeansEqual ==
    (Matched /\ "*" \notin CharsOf(pattern)) =>
        matchResult = AsResult(filePath = pattern)

(***************************************************************************)
(* Properties of combineDiagnostics                                        *)
(***************************************************************************)
CombineEnded == pc \in {"combined", "threw"}

\* the diagnostic is neither of an ignored rule key nor in an ignored file
NotIgnored(d, config) ==
    /\ \A i \in 1..Len(config.rules) : config.rules[i] # ruleKey(d)
    /\ \A i \in 1..Len(config.files) : ~GlobMatches(config.files[i], d.filePath)

\* the subsequence of lint ++ deadCode of the diagnostics that are not ignored
ExpectedCombined(lint, deadCode, config) ==
    LET all == lint \o deadCode
        Keep(d) == NotIgnored(d, config)
    IN  IF config.isNull THEN all ELSE SelectSeq(all, Keep)

\* C10: combineDiagnostics returns the lint diagnostics followed by the dead-code
\* diagnostics, less those whose rule key is in ignore.rules and those whose file path
\* matches a pattern of ignore.files, in order and unmodified; all of them when the
\* configuration is null.
C10_CombineFiltersIgnored ==
    CombineEnded =>
        /\ pc = "combined"
        /\ diagnostics = ExpectedCombined(lintDiagnostics, deadCodeDiagnostics, userConfig)

(***************************************************************************)
(* scan (scan.ts) and the loop of the command line that calls it (cli.ts). *)
(* The two analyzers are external: what ESLint and knip do on the project  *)
(* is given by `tools`.  Terminal output and the markdown report are kept  *)
(* as the sequence of their parts.                                         *)
(***************************************************************************)
MaxChangedFiles == 1

Opt == {<<>>, <<TRUE>>, <<FALSE>>}

\* a ?? b
Nullish(a, b) == IF a # <<>> THEN a ELSE b

\* an AngularDoctorConfig that sets toggles and ignores nothing
ToggleConfig(lint, deadCode, verbose, fast) ==
    [isNull |-> FALSE, rules |-> <<>>, files |-> <<>>,
     lint |-> lint, deadCode |-> deadCode, verbose |-> verbose, fast |-> fast]

\* userConfig?.key
configToggle(config, key) == IF config.isNull THEN <<>> ELSE config[key]

\* SOURCE_FILE_PATTERN.test(path), the pattern being /\.ts$/
isSourceFile(path) ==
    Len(path) >= 3 /\ SubSeq(path, Len(path) - 2, Len(path)) = <<".", "t", "s">>

filterSourceFiles(list) == SelectSeq(list, isSourceFile)

\* undefined for an empty list, else the source files of the list
computeIncludePaths(includePaths) ==
    IF Len(includePaths) > 0 THEN <<SelectSeq(includePaths, isSourceFile)>> ELSE <<>>

\* flags.lint is true unless --no-lint is given, and --no-lint is its only command-line
\* source; likewise for deadCode; flags.verbose and flags.score are undefined unless given
resolveCliScanOptions(fl, config) ==
    [lint |-> IF fl.noLint THEN <<~fl.noLint>>
              ELSE Nullish(configToggle(config, "lint"), <<~fl.noLint>>),
     deadCode |-> IF fl.noDeadCode THEN <<~fl.noDeadCode>>
                  ELSE Nullish(configToggle(config, "deadCode"), <<~fl.noDeadCode>>),
     verbose |-> IF fl.verbose THEN <<fl.verbose>>
                 ELSE Nullish(configToggle(config, "verbose"), <<FALSE>>),
     fast |-> <<>>,
     scoreOnly |-> IF fl.score THEN <<TRUE>> ELSE <<>>,
     report |-> IF fl.report THEN <<BooleanValue(TRUE)>> ELSE <<>>,
     includePaths |-> <<>>]

\* mergeScanOptions with fast mode leaving the two analyzers as they were asked for
mergeScanOptions_fastIgnored(input, config) ==
    [lint |-> Nullish(input.lint, Nullish(configToggle(config, "lint"), <<TRUE>>))[1],
     deadCode |-> Nullish(input.deadCode, Nullish(configToggle(config, "deadCode"), <<TRUE>>))[1],
     verbose |-> Nullish(input.verbose, Nullish(configToggle(config, "verbose"), <<FALSE>>))[1],
     scoreOnly |-> Nullish(input.scoreOnly, <<FALSE>>)[1],
     report |-> Nullish(input.report, <<BooleanValue(FALSE)>>)[1],
     useTypeAwareLint |-> TRUE,
     includePaths |-> Nullish(input.includePaths, << <<>> >>)[1]]

mergeScanOptions(input, config) ==
    LET fastMode == Nullish(input.fast, Nullish(configToggle(config, "fast"), <<FALSE>>))[1]
    IN  [lint |-> Nullish(input.lint, Nullish(configToggle(config, "lint"), <<TRUE>>))[1],
         deadCode |-> IF fastMode THEN FALSE
                      ELSE Nullish(input.deadCode,
                                   Nullish(configToggle(config, "deadCode"), <<TRUE>>))[1],
         verbose |-> Nullish(input.verbose,
                             Nullish(configToggle(config, "verbose"), <<FALSE>>))[1],
         scoreOnly |-> Nullish(input.scoreOnly, <<FALSE>>)[1],
         report |-> Nullish(input.report, <<BooleanValue(FALSE)>>)[1],
         useTypeAwareLint |-> ~fastMode,
         includePaths |-> Nullish(input.includePaths, << <<>> >>)[1]]

\* parserOptions.project is set, and the lint is type-aware, iff all three hold
buildEslintConfig(hasTypeScript, hasTsconfig, useTypeAware) ==
    IF hasTypeScript /\ hasTsconfig /\ useTypeAware THEN "typeAware" ELSE "plain"

\* runEslint: call is the ESLint configuration it built ("none" when it returned before
\* building one); a rejection of eslint.lintFiles is caught inside and becomes []
runEslint(eslint, hasTypeScript, includePaths, useTypeAware) ==
    IF includePaths # <<>> /\ Len(includePaths[1]) = 0
    THEN [call |-> "none", threw |-> FALSE, value |-> <<>>]
    ELSE LET call == buildEslintConfig(hasTypeScript, hasTypeScript, useTypeAware)
         IN  CASE eslint.outcome = "constructorThrows" ->
                      [call |-> call, threw |-> TRUE, value |-> <<>>]
               [] eslint.outcome = "lintFilesRejects" ->
                      [call |-> call, threw |-> FALSE, value |-> <<>>]
               [] OTHER -> [call |-> call, threw |-> FALSE, value |-> eslint.findings]

\* scan's closure runLint; failed is what it leaves in didLintFail
runLint(opts, info, eslint) ==
    IF ~opts.lint THEN [call |-> "none", failed |-> FALSE, value |-> <<>>]
    ELSE LET run == runEslint(eslint, info.hasTypeScript,
                              computeIncludePaths(opts.includePaths), opts.useTypeAwareLint)
         IN  [call |-> run.call, failed |-> run.threw, value |-> run.value]

\* runDeadCode without its test of isDiffMode
runDeadCode_ignoringDiff(opts, knip) ==
    IF ~opts.deadCode THEN [call |-> "none", failed |-> FALSE, value |-> <<>>]
    ELSE IF knip.outcome = "throws" THEN [call |-> "called", failed |-> TRUE, value |-> <<>>]
    ELSE [call |-> "called", failed |-> FALSE, value |-> knip.findings]

\* scan's closure runDeadCode, isDiffMode being includePaths.length > 0
runDeadCode(opts, knip) ==
    IF ~opts.deadCode \/ Len(opts.includePaths) > 0
    THEN [call |-> "none", failed |-> FALSE, value |-> <<>>]
    ELSE IF knip.outcome = "throws" THEN [call |-> "called", failed |-> TRUE, value |-> <<>>]
    ELSE [call |-> "called", failed |-> FALSE, value |-> knip.findings]

\* the framed lines above the counts line; NoScore stands for a null scoreResult
buildBrandingLines(result) ==
    IF result # NoScore
    THEN <<"face", "Angular Doctor", "score / 100 label", "score bar">>
    ELSE <<"Angular Doctor", "Score unavailable">>

\* the headings of the markdown report, and the body of a report without diagnostics
buildMarkdownReport(list, result) ==
    <<"# Angular Doctor Report">> \o (IF result # NoScore THEN <<"## Score">> ELSE <<>>)
        \o <<"## Summary", "## Diagnostics">>
        \o (IF Len(list) = 0 THEN <<"No issues found.">> ELSE <<>>)

\* groupBy(items, (diagnostic) => `${diagnostic.plugin}/${diagnostic.rule}`), then
\* [...map.entries()]: a Map keeps its keys in the order of their first insertion
RECURSIVE groupBy(_)
groupBy(items) ==
    IF Len(items) = 0 THEN <<>>
    ELSE LET item == items[Len(items)]
             map == groupBy(SubSeq(items, 1, Len(items) - 1))
             k == ruleKey(item)
             at == { i \in 1..Len(map) : map[i].key = k }
         IN  IF at = {} THEN Append(map, [key |-> k, items |-> <<item>>])
             ELSE [i \in 1..Len(map) |->
                      IF i \in at THEN [map[i] EXCEPT !.items = Append(@, item)] ELSE map[i]]

SEVERITY_ORDER == [error |-> 0, warning |-> 1]

\* a sort that puts the warning groups first
RECURSIVE sortBySeverity_warningsFirst(_)
sortBySeverity_warningsFirst(diagnosticGroups) ==
    IF Len(diagnosticGroups) = 0 THEN <<>>
    ELSE LET last == diagnosticGroups[Len(diagnosticGroups)]
             sorted == sortBySeverity_warningsFirst(
                           SubSeq(diagnosticGroups, 1, Len(diagnosticGroups) - 1))
             compare(a, b) == SEVERITY_ORDER[b.items[1].severity]
                                  - SEVERITY_ORDER[a.items[1].severity]
             before == { i \in 1..Len(sorted) : compare(sorted[i], last) <= 0 }
         IN  SubSeq(sorted, 1, Cardinality(before)) \o <<last>>
                 \o SubSeq(sorted, Cardinality(before) + 1, Len(sorted))

\* Array.prototype.toSorted with the comparator severityA - severityB: the sort is
\* stable, so a group goes behind every earlier group that does not compare greater
RECURSIVE sortBySeverity(_)
sortBySeverity(diagnosticGroups) ==
    IF Len(diagnosticGroups) = 0 THEN <<>>
    ELSE LET last == diagnosticGroups[Len(diagnosticGroups)]
             sorted == sortBySeverity(SubSeq(diagnosticGroups, 1, Len(diagnosticGroups) - 1))
             compare(a, b) == SEVERITY_ORDER[a.items[1].severity]
                                  - SEVERITY_ORDER[b.items[1].severity]
             before == { i \in 1..Len(sorted) : compare(sorted[i], last) <= 0 }
         IN  SubSeq(sorted, 1, Cardinality(before)) \o <<last>>
                 \o SubSeq(sorted, Cardinality(before) + 1, Len(sorted))

Str_reportMd == <<"r", "e", "p", "o", "r", "t", ".", "m", "d">>

\* the directory of the scan as a path, and the directory mkdirSync makes in tmpdir()
DirectoryPath == [root |-> << <<"w">> >>, project |-> << <<"w">>, <<"a">> >>]
OutputDirectory == << <<"t", "m", "p">>, <<"a", "n", "g", "u", "l", "a", "r", "-", "d", "o", "c", "t", "o", "r", "-", "1">> >>

\* path.extname of a path whose last segment has a letter first: from its last "." on
extname(path) ==
    LET name == path[Len(path)]
        dots == { i \in 2..Len(name) : name[i] = "." }
    IN  IF dots = {} THEN <<>>
        ELSE SubSeq(name, CHOOSE i \in dots : \A j \in dots : j <= i, Len(name))

\* a report target that is a string is a relative path of one segment; <<>> is null
resolveReportPath(report, outputDirectory, baseDirectory) ==
    IF (report.type = "boolean" /\ ~report.flag)
           \/ (report.type = "string" /\ Len(report.text) = 0)
    THEN <<>>
    ELSE IF report.type = "string"
    THEN LET absolutePath == Append(baseDirectory, report.text)
         IN  IF Len(extname(absolutePath)) > 0 THEN <<absolutePath>>
             ELSE <<Append(absolutePath, Str_reportMd)>>
    ELSE <<Append(outputDirectory, Str_reportMd)>>

\* what scan prints and writes after scoring: the terminal lines, the markdown
\* report with its path, and the rule groups of printDiagnostics, of the summary
\* files of writeDiagnosticsDirectory and of buildMarkdownReport; every write succeeds
scanOutput(opts, list, result, skipped, baseDirectory) ==
    IF opts.scoreOnly
    THEN [terminal |-> <<"score">>, markdown |-> <<>>, path |-> <<>>, groups |-> NoGroups]
    ELSE IF Len(list) = 0
    THEN [terminal |->
              IF Len(skipped) > 0
              THEN <<"No issues detected, but checks failed", "Angular Doctor",
                     "Score not shown">>
              ELSE <<"No issues found!", "face", "Angular Doctor", "score / 100 label",
                     "score bar">>,
          markdown |-> <<>>, path |-> <<>>, groups |-> NoGroups]
    ELSE LET reportPath == resolveReportPath(opts.report, OutputDirectory, baseDirectory)
             sortedRuleGroups == sortBySeverity(groupBy(list))
         IN  [terminal |->
                  <<"diagnostics">> \o buildBrandingLines(result) \o <<"counts">>
                      \o (IF Len(skipped) > 0 THEN <<"Note: checks failed">> ELSE <<>>),
              markdown |-> IF reportPath # <<>> THEN buildMarkdownReport(list, result)
                           ELSE <<>>,
              path |-> reportPath,
              groups |-> [terminal |-> sortedRuleGroups,
                          files |-> sortedRuleGroups,
                          markdown |-> IF reportPath # <<>> THEN sortedRuleGroups
                                       ELSE <<>>]]

\* cli.ts: one iteration of `for (const projectDirectory of projectDirectories)`, up to
\* its call of scan
CliScanProject ==
    /\ scanPc = "cli"
    /\ LET scanOptions == resolveCliScanOptions(flags, configAt["root"])
           hasDiff == isDiffMode /\ ~projectDiffInfo.isNull
           changedSourceFiles ==
               IF hasDiff THEN filterSourceFiles(projectDiffInfo.changedFiles) ELSE <<>>
       IN  IF hasDiff /\ Len(changedSourceFiles) = 0
           THEN scanPc' = "skipped" /\ inputOptions' = inputOptions
           ELSE /\ scanPc' = "scan"
                /\ inputOptions' =
                       [scanOptions EXCEPT
                           !.includePaths = IF hasDiff THEN <<changedSourceFiles>> ELSE <<>>]
    /\ UNCHANGED <<options, lintState, deadCodeState, eslintCall, knipCall, didLintFail,
                   didDeadCodeFail, skippedChecks, terminal, markdownReport,
                   markdownPath, shownGroups>>
    /\ UNCHANGED <<cliVars, combineVars, scoreVars, globVars, resolverVars>>

\* scan, up to the definition of its two closures
ScanStart ==
    /\ scanPc = "scan"
    /\ userConfig' = configAt[directory]
    /\ options' = mergeScanOptions(inputOptions, userConfig')
    /\ scanPc' = IF projectInfo.angularVersion = <<>> THEN "threw" ELSE "analyzing"
    /\ UNCHANGED <<inputOptions, lintState, deadCodeState, eslintCall, knipCall, didLintFail,
                   didDeadCodeFail, skippedChecks, terminal, markdownReport,
                   markdownPath, shownGroups>>
    /\ UNCHANGED <<lintDiagnostics, deadCodeDiagnostics, pc>>
    /\ UNCHANGED <<cliVars, scoreVars, globVars, resolverVars>>

\* runLint() is called: it runs up to its await
LintStart ==
    /\ scanPc = "analyzing" /\ lintState = "pending"
    /\ lintState' = "running"
    /\ eslintCall' = runLint(options, projectInfo, tools.eslint).call
    /\ UNCHANGED <<inputOptions, options, scanPc, deadCodeState, knipCall, didLintFail,
                   didDeadCodeFail, skippedChecks, terminal, markdownReport,
                   markdownPath, shownGroups>>
    /\ UNCHANGED <<cliVars, combineVars, scoreVars, globVars, resolverVars>>

\* runLint() settles; under Promise.all that is after runDeadCode() was called
LintEnd ==
    /\ lintState = "running"
    /\ options.scoreOnly => deadCodeState # "pending"
    /\ lintState' = "done"
    /\ lintDiagnostics' = runLint(options, projectInfo, tools.eslint).value
    /\ didLintFail' = runLint(options, projectInfo, tools.eslint).failed
    /\ UNCHANGED <<inputOptions, options, scanPc, deadCodeState, eslintCall, knipCall,
                   didDeadCodeFail, skippedChecks, terminal, markdownReport,
                   markdownPath, shownGroups>>
    /\ UNCHANGED <<deadCodeDiagnostics, userConfig, pc>>
    /\ UNCHANGED <<cliVars, scoreVars, globVars, resolverVars>>

\* runDeadCode() called as soon as runLint() was, whatever the mode
DeadCodeStart_withoutAwait ==
    /\ scanPc = "analyzing" /\ deadCodeState = "pending"
    /\ lintState # "pending"
    /\ deadCodeState' = "running"
    /\ knipCall' = runDeadCode(options, tools.knip).call
    /\ UNCHANGED <<inputOptions, options, scanPc, lintState, eslintCall, didLintFail,
                   didDeadCodeFail, skippedChecks, terminal, markdownReport,
                   markdownPath, shownGroups>>
    /\ UNCHANGED <<cliVars, combineVars, scoreVars, globVars, resolverVars>>

\* runDeadCode() is called: after `await runLint()`, or right after the call of
\* runLint() under Promise.all
DeadCodeStart ==
    /\ scanPc = "analyzing" /\ deadCodeState = "pending"
    /\ IF options.scoreOnly THEN lintState # "pending" ELSE lintState = "done"
    /\ deadCodeState' = "running"
    /\ knipCall' = runDeadCode(options, tools.knip).call
    /\ UNCHANGED <<inputOptions, options, scanPc, lintState, eslintCall, didLintFail,
                   didDeadCodeFail, skippedChecks, terminal, markdownReport,
                   markdownPath, shownGroups>>
    /\ UNCHANGED <<cliVars, combineVars, scoreVars, globVars, resolverVars>>

\* runDeadCode() settles
DeadCodeEnd ==
    /\ deadCodeState = "running"
    /\ deadCodeState' = "done"
    /\ deadCodeDiagnostics' = runDeadCode(options, tools.knip).value
    /\ didDeadCodeFail' = runDeadCode(options, tools.knip).failed
    /\ UNCHANGED <<inputOptions, options, scanPc, lintState, eslintCall, knipCall,
                   didLintFail, skippedChecks, terminal, markdownReport,
                   markdownPath, shownGroups>>
    /\ UNCHANGED <<lintDiagnostics, userConfig, pc>>
    /\ UNCHANGED <<cliVars, scoreVars, globVars, resolverVars>>

\* scan from combineDiagnostics to its return
ScanFinish ==
    /\ scanPc = "analyzing" /\ lintState = "done" /\ deadCodeState = "done"
    /\ LET combined == combineDiagnostics(lintDiagnostics, deadCodeDiagnostics, userConfig)
           skipped == (IF didLintFail THEN <<"lint">> ELSE <<>>)
                          \o (IF didDeadCodeFail THEN <<"dead code">> ELSE <<>>)
           result == calculateScore(combined.value)
           output == scanOutput(options, combined.value, result, skipped,
                                DirectoryPath[directory])
       IN  IF combined.threw
           THEN /\ scanPc' = "threw"
                /\ UNCHANGED <<diagnostics, scoreResult, skippedChecks, terminal,
                               markdownReport,
                   markdownPath, shownGroups>>
           ELSE /\ scanPc' = "returned"
                /\ diagnostics' = combined.value
                /\ scoreResult' = result
                /\ skippedChecks' = skipped
                /\ terminal' = output.terminal
                /\ markdownReport' = output.markdown
                /\ markdownPath' = output.path
                /\ shownGroups' = output.groups
    /\ UNCHANGED <<inputOptions, options, lintState, deadCodeState, eslintCall, knipCall,
                   didLintFail, didDeadCodeFail>>
    /\ UNCHANGED <<cliVars, combineVars, globVars, resolverVars>>

NextScan == ScanStart \/ LintStart \/ LintEnd \/ DeadCodeStart \/ DeadCodeEnd \/ ScanFinish

\* scan called through the API: every toggle given or not, on a project whose
\* configuration sets every toggle or not, each analyzer succeeding or failing; or on a
\* directory whose package.json has no @angular/core; one configuration ignores the
\* rule of the knip finding
InitScan ==
    /\ flags = NoFlags /\ isDiffMode = FALSE /\ projectDiffInfo = NoDiff
    /\ directory = "root"
    /\ configAt \in
           { [d \in {"root", "project"} |-> c] :
               c \in {NullConfig,
                       [ToggleConfig(<<>>, <<>>, <<>>, <<>>)
                           EXCEPT !.rules = << <<"k", "/", "r">> >>]}
                   \cup { ToggleConfig(l, d, <<>>, f) : l \in Opt, d \in Opt, f \in Opt } }
    /\ \/ /\ projectInfo = AngularProject
          /\ tools \in
                 { [eslint |-> [outcome |-> e[1], findings |-> e[2]],
                    knip |-> [outcome |-> k, findings |-> QuietTools.knip.findings]] :
                     e \in {<<"ok", QuietTools.eslint.findings>>, <<"ok", <<>> >>,
                            <<"lintFilesRejects", <<>> >>, <<"constructorThrows", <<>> >>},
                     k \in {"ok", "throws"} }
       \/ /\ projectInfo = [angularVersion |-> <<>>, hasTypeScript |-> FALSE]
          /\ tools = QuietTools
    /\ inputOptions \in
           { [lint |-> l, deadCode |-> d, verbose |-> <<>>, fast |-> f, scoreOnly |-> m[1],
              report |-> m[2], includePaths |-> i] :
               l \in Opt, d \in Opt, f \in Opt,
               m \in {<< <<>>, <<>> >>, << <<TRUE>>, <<>> >>}
                         \cup { << s, <<r>> >> :
                                  s \in {<<>>, <<TRUE>>},
                                  r \in {BooleanValue(TRUE), StringValue(<<"o", "u", "t">>),
                                         StringValue(<<"r", ".", "m", "d">>)} },
               i \in {<<>>, << <<Str_fileTs>> >>} }
    /\ scanPc = "scan" /\ ScanFresh
    /\ CombineIdle /\ ScoreIdle /\ GlobIdle /\ ResolversIdle

SpecScan == InitScan /\ [][NextScan]_vars

\* the command line: each flag given or not, a root configuration, and a project that
\* is the root itself or a workspace project with a configuration of its own; with
\* diff mode on, the diff of the project directory ("a.ts" and "b.md" changed, or not)
InitCli ==
    /\ flags \in [noLint : BOOLEAN, noDeadCode : BOOLEAN, verbose : BOOLEAN,
                  score : BOOLEAN, report : {FALSE}]
    /\ directory \in {"root", "project"}
    /\ LET configs == {NullConfig} \cup
                          { ToggleConfig(l, d, v, <<>>) : l \in Opt, d \in Opt, v \in Opt }
       IN  configAt \in
               { [d \in {"root", "project"} |-> IF d = "root" THEN c[1] ELSE c[2]] :
                   c \in configs \X (IF directory = "root" THEN {NullConfig} ELSE configs) }
    /\ isDiffMode \in BOOLEAN
    /\ projectDiffInfo \in
           IF isDiffMode
           THEN {NoDiff} \cup
                    { [isNull |-> FALSE, changedFiles |-> c] :
                        c \in UNION { [1..n -> {Str_fileTs, <<"b", ".", "m", "d">>}] :
                                         n \in 0..MaxChangedFiles } }
           ELSE {NoDiff}
    /\ projectInfo = AngularProject /\ tools = QuietTools
    /\ inputOptions = NoOptions /\ scanPc = "cli" /\ ScanFresh
    /\ CombineIdle /\ ScoreIdle /\ GlobIdle /\ ResolversIdle

NextCli == CliScanProject \/ NextScan

SpecCli == InitCli /\ [][NextCli]_vars

(***************************************************************************)
(* Claims about scan and the command-line loop                             *)
(***************************************************************************)
InList(x, list) == \E i \in 1..Len(list) : list[i] = x

\* both closures have settled and scan has gone on to its end
AnalyzersSettled ==
    scanPc \in {"returned", "threw"} /\ lintState = "done" /\ deadCodeState = "done"

\* ESLint was set to work and did not deliver its results; knip was called and threw
LintFailed == eslintCall # "none" /\ tools.eslint.outcome # "ok"
DeadCodeFailed == knipCall = "called" /\ tools.knip.outcome = "throws"

\* C11: when scan has run its analyzers, a failed lint analyzer is named "lint" in
\* skippedChecks and contributes no diagnostics, a failed dead-code analyzer is named
\* "dead code" and contributes none, the other analyzer has run if it was enabled, and
\* scan has returned rather than thrown; in sequential and score-only mode alike.
C11_AnalyzerFailuresAreRecorded ==
    AnalyzersSettled =>
        /\ LintFailed =>
              /\ scanPc = "returned"
              /\ InList("lint", skippedChecks)
              /\ lintDiagnostics = <<>>
              /\ (options.deadCode /\ Len(options.includePaths) = 0) => knipCall = "called"
        /\ DeadCodeFailed =>
              /\ scanPc = "returned"
              /\ InList("dead code", skippedChecks)
              /\ deadCodeDiagnostics = <<>>
              /\ options.lint => eslintCall # "none"

\* the parts of the output that show the numeric score
ScoreLines == {"score", "score / 100 label", "score bar"}

\* C12: outside score-only mode, a scan that returns with a non-empty skippedChecks has
\* printed no line showing the score and has written no Score section to the markdown
\* report, with diagnostics left or without.
C12_SkippedChecksHideScore ==
    (scanPc = "returned" /\ ~options.scoreOnly /\ Len(skippedChecks) > 0) =>
        /\ \A i \in 1..Len(terminal) : terminal[i] \notin ScoreLines
        /\ ~InList("## Score", markdownReport)

\* C13 as stated: in a run whose diff mode was resolved to on, runKnip is called for no
\* project, whatever the deadCode toggle and whatever the diff query of the project
\* returned.
C13_DiffRunNeverRunsKnip == isDiffMode => knipCall = "none"

\* C13 amended: a scan that is handed a non-empty include-path list never calls runKnip,
\* whatever the deadCode toggle; in a diff-mode run, a project whose own diff query
\* returned null is scanned in full, and runKnip is called for it when the dead-code
\* toggle is on.
C13_IncludePathsSkipKnip ==
    /\ (inputOptions.includePaths # <<>> /\ Len(inputOptions.includePaths[1]) > 0) =>
           knipCall = "none"
    /\ (isDiffMode /\ projectDiffInfo.isNull /\ deadCodeState # "pending"
            /\ options.deadCode) => knipCall = "called"

C13_Witness ==
    /\ isDiffMode /\ scanPc = "returned"
    /\ inputOptions.includePaths = << <<Str_fileTs>> >>
    /\ options.deadCode /\ knipCall = "none"

\* the value the claim gives a toggle of the scanned directory
ExpectedToggle(given, cliValue, key, default) ==
    IF given THEN cliValue
    ELSE Nullish(configToggle(configAt[directory], key), <<default>>)[1]

\* C14: for every project scanned from the command line, each of lint, deadCode and
\* verbose is the command-line value if the flag was given, else the value in the
\* configuration of the scanned directory if it sets one, else the default (lint on,
\* dead-code on, verbose off); also when the scanned directory is not the root.
C14_TogglePrecedencePerTarget ==
    scanPc \in {"analyzing", "returned"} =>
        /\ options.lint = ExpectedToggle(flags.noLint, FALSE, "lint", TRUE)
        /\ options.deadCode = ExpectedToggle(flags.noDeadCode, FALSE, "deadCode", TRUE)
        /\ options.verbose = ExpectedToggle(flags.verbose, TRUE, "verbose", FALSE)

\* fast mode is on: given as true by the caller, or not given and true in the
\* configuration
FastModeOn ==
    \/ inputOptions.fast = <<TRUE>>
    \/ inputOptions.fast = <<>> /\ configToggle(configAt[directory], "fast") = <<TRUE>>

\* C15: in a scan with fast mode on, runKnip is never called and ESLint is never given
\* a type-aware configuration, whatever lint and deadCode values the caller and the
\* configuration give.
C15_FastModeOverrides == FastModeOn => knipCall = "none" /\ eslintCall # "typeAware"

C15_Witness ==
    /\ FastModeOn /\ scanPc = "returned"
    /\ inputOptions.deadCode = <<TRUE>> /\ configToggle(configAt[directory], "deadCode") = <<TRUE>>
    /\ projectInfo.hasTypeScript /\ eslintCall = "plain" /\ knipCall = "none"

(***************************************************************************)
(* loadConfig (load-config.ts).  A file of the directory is <<>> when it   *)
(* does not exist, else <<document>>; a document is malformed JSON or the  *)
(* JSON value it parses to.  An object value carries its members: those of *)
(* the configuration, or the angularDoctor key of a package.json.          *)
(***************************************************************************)
isPlainObject(value) == value.type = "object"

\* its return value (NullConfig for null), its console.warn calls and the files it read
loadConfig(directoryFiles) ==
    IF directoryFiles.configFile # <<>>
    THEN LET document == directoryFiles.configFile[1]
             read == <<"angular-doctor.config.json">>
         IN  IF ~document.wellFormed
             THEN [config |-> NullConfig, reads |-> read,
                   warned |-> <<"Failed to parse angular-doctor.config.json">>]
             ELSE IF ~isPlainObject(document.value)
             THEN [config |-> NullConfig, reads |-> read,
                   warned |-> <<"angular-doctor.config.json must be a JSON object">>]
             ELSE [config |-> document.value.members, reads |-> read, warned |-> <<>>]
    ELSE IF directoryFiles.packageJson # <<>>
    THEN LET document == directoryFiles.packageJson[1]
             read == <<"package.json">>
             \* packageJson["angularDoctor"]: a TypeError on null, undefined on an
             \* array, a string or an object without the key
             embeddedConfig ==
                 IF isPlainObject(document.value) THEN document.value.members.angularDoctor
                 ELSE <<>>
         IN  IF ~document.wellFormed \/ document.value.type = "null"
             THEN [config |-> NullConfig, reads |-> read, warned |-> <<>>]
             ELSE IF embeddedConfig # <<>> /\ isPlainObject(embeddedConfig[1])
             THEN [config |-> embeddedConfig[1].members, reads |-> read, warned |-> <<>>]
             ELSE [config |-> NullConfig, reads |-> read, warned |-> <<>>]
    ELSE [config |-> NullConfig, reads |-> <<>>, warned |-> <<>>]

LoadConfig ==
    /\ loadResult.kind = "pending"
    /\ LET loaded == loadConfig(disk)
       IN  /\ loadResult' = [kind |-> "returned", config |-> loaded.config,
                             reads |-> loaded.reads]
           /\ warnings' = loaded.warned
    /\ UNCHANGED <<disk, workspace, projectFlag, skipPrompts, selection,
                   git, explicitBaseBranch, gitCalls, diffInfo>>
    /\ UNCHANGED <<knipVars, actionVars, discoverVars>>
    /\ UNCHANGED <<cliVars, scanVars, combineVars, scoreVars, globVars>>

\* each of the two files absent, malformed, a JSON value that is no object, or an object;
\* the angularDoctor key of an object package.json absent or any such value
InitLoad ==
    /\ LET malformed == [wellFormed |-> FALSE, value |-> [type |-> "null"]]
           Json(value) == [wellFormed |-> TRUE, value |-> value]
           Object(members) == [type |-> "object", members |-> members]
           values == { [type |-> t] : t \in {"null", "array", "string"} }
                         \cup { Object(ToggleConfig(l, d, <<>>, <<>>)) :
                                  l \in {<<>>, <<FALSE>>}, d \in {<<>>, <<FALSE>>} }
           manifests == { [type |-> t] : t \in {"null", "array"} }
                            \cup { Object([angularDoctor |-> e]) :
                                     e \in {<<>>} \cup { <<v>> : v \in values } }
       IN  /\ disk \in [configFile : {<<>>, <<malformed>>} \cup { <<Json(v)>> : v \in values },
                        packageJson : {<<>>, <<malformed>>} \cup { <<Json(v)>> : v \in manifests }]
    /\ loadResult = [kind |-> "pending"] /\ warnings = <<>>
    /\ workspace = [angularProjects |-> <<>>, packageJson |-> FALSE, entries |-> <<>>]
    /\ projectFlag = <<>> /\ skipPrompts = FALSE /\ selection = [kind |-> "pending"]
    /\ git = [head |-> <<>>, branches |-> {}, changed |-> {}, status |-> <<>>]
    /\ explicitBaseBranch = <<>> /\ gitCalls = <<>> /\ diffInfo = [kind |-> "pending"]
    /\ ScanIdle /\ CombineIdle /\ ScoreIdle /\ GlobIdle /\ KnipIdle
    /\ ActionIdle /\ DiscoverIdle

NextLoad == LoadConfig

SpecLoad == InitLoad /\ [][NextLoad]_vars

\* the source loadConfig is to consult, and whether what it holds is malformed JSON or
\* a payload (the file's value, the manifest's angularDoctor value) that is no object
ConsultedFile == IF disk.configFile # <<>> THEN disk.configFile ELSE disk.packageJson
BadPayload ==
    /\ ConsultedFile # <<>>
    /\ \/ ~ConsultedFile[1].wellFormed
       \/ IF disk.configFile # <<>> THEN ~isPlainObject(ConsultedFile[1].value)
          ELSE /\ isPlainObject(ConsultedFile[1].value)
               /\ ConsultedFile[1].value.members.angularDoctor # <<>>
               /\ ~isPlainObject(ConsultedFile[1].value.members.angularDoctor[1])

\* C16: loadConfig returns without throwing after reading at most one file, the config
\* file if it exists and else the manifest; and whenever the file it consults holds
\* malformed JSON or a payload that is no plain object, it returns null and has warned.
C16_OneSourceNullAndWarning ==
    loadResult.kind # "pending" =>
        /\ loadResult.kind = "returned"
        /\ Len(loadResult.reads) <= 1
        /\ disk.configFile # <<>> => loadResult.reads = <<"angular-doctor.config.json">>
        /\ BadPayload => loadResult.config = NullConfig /\ Len(warnings) > 0

(***************************************************************************)
(* selectProjects (select-projects.ts) with listWorkspacePackages          *)
(* (discover-project.ts).  A directory is the sequence of its path         *)
(* segments; names and segments are strings.  workspace.angularProjects is *)
(* what listAngularWorkspaceProjects(rootDirectory) returns,               *)
(* workspace.entries the directories the workspace patterns resolve to,    *)
(* each with the name and the Angular dependency of its package.json.      *)
(***************************************************************************)
MaxFlagLen == 3

RootDirectory == << <<"r">> >>

\* path.basename(directory)
basename(dir) == dir[Len(dir)]

listWorkspacePackages(ws) ==
    IF ~ws.packageJson THEN <<>>
    ELSE LET hasAngularDependency(entry) == entry.angular
             kept == SelectSeq(ws.entries, hasAngularDependency)
         IN  [i \in 1..Len(kept) |->
                 [name |-> Nullish(kept[i].name, <<basename(kept[i].directory)>>)[1],
                  directory |-> kept[i].directory]]

\* String.prototype.split(","): the pieces between the commas, empty ones included
RECURSIVE split(_)
split(str) ==
    IF \A i \in 1..Len(str) : str[i] # "," THEN <<str>>
    ELSE LET comma == CHOOSE i \in 1..Len(str) :
                          str[i] = "," /\ \A j \in 1..(i - 1) : str[j] # ","
         IN  <<SubSeq(str, 1, comma - 1)>> \o split(SubSeq(str, comma + 1, Len(str)))

\* String.prototype.trim(), the blank standing for every white-space character
RECURSIVE trim(_)
trim(str) ==
    IF Len(str) > 0 /\ str[1] = " " THEN trim(Tail(str))
    ELSE IF Len(str) > 0 /\ str[Len(str)] = " " THEN trim(SubSeq(str, 1, Len(str) - 1))
    ELSE str

\* projectFlag.split(",").map((name) => name.trim())
requestedNames(flag) == [i \in 1..Len(split(flag)) |-> trim(split(flag)[i])]

\* resolveProjectFlag that drops the names it does not find
resolveProjectFlag_skippingUnknown(flag, packages) ==
    LET names == requestedNames(flag)
        found(name) == { i \in 1..Len(packages) :
                            \/ packages[i].name = name
                            \/ basename(packages[i].directory) = name }
        isKnown(name) == found(name) # {}
        known == SelectSeq(names, isKnown)
    IN  [kind |-> "returned",
         directories |->
             [k \in 1..Len(known) |->
                 packages[CHOOSE i \in found(known[k]) : \A j \in found(known[k]) : i <= j]
                     .directory]]

\* found(name) holds the packages Array.find tests true on; it returns the first
resolveProjectFlag(flag, packages) ==
    LET names == requestedNames(flag)
        found(name) == { i \in 1..Len(packages) :
                            \/ packages[i].name = name
                            \/ basename(packages[i].directory) = name }
        missing == { k \in 1..Len(names) : found(names[k]) = {} }
    IN  IF missing # {}
        THEN [kind |-> "threw",
              notFound |-> names[CHOOSE k \in missing : \A j \in missing : k <= j],
              available |-> [i \in 1..Len(packages) |-> packages[i].name]]
        ELSE [kind |-> "returned",
              directories |->
                  [k \in 1..Len(names) |->
                      packages[CHOOSE i \in found(names[k]) :
                                   \A j \in found(names[k]) : i <= j].directory]]

\* selectProjects trying the package-manager workspace before angular.json
selectProjects_packageManagerFirst(ws, flag, skip, answer) ==
    LET fromWorkspace == listWorkspacePackages(ws)
        packages == IF Len(fromWorkspace) = 0 THEN ws.angularProjects ELSE fromWorkspace
        all == [i \in 1..Len(packages) |-> packages[i].directory]
    IN  IF Len(packages) = 0 THEN [kind |-> "returned", directories |-> <<RootDirectory>>]
        ELSE IF Len(packages) = 1 THEN [kind |-> "returned", directories |-> all]
        ELSE IF flag # <<>> /\ Len(flag[1]) > 0 THEN resolveProjectFlag(flag[1], packages)
        ELSE IF skip THEN [kind |-> "returned", directories |-> all]
        ELSE IF answer = {} THEN [kind |-> "exited"]
        ELSE LET ticked(i) == i \in answer
                 chosen == SelectSeq([i \in 1..Len(packages) |-> i], ticked)
             IN  [kind |-> "returned",
                  directories |-> [k \in 1..Len(chosen) |-> all[chosen[k]]]]

\* answer is what the operator does at the multiselect prompt: the set of choices
\* ticked on submit (min: 1), or {} for a cancel, on which onCancel exits the process
selectProjects(ws, flag, skip, answer) ==
    LET fromAngular == ws.angularProjects
        packages == IF Len(fromAngular) = 0 THEN listWorkspacePackages(ws) ELSE fromAngular
        all == [i \in 1..Len(packages) |-> packages[i].directory]
    IN  IF Len(packages) = 0 THEN [kind |-> "returned", directories |-> <<RootDirectory>>]
        ELSE IF Len(packages) = 1 THEN [kind |-> "returned", directories |-> all]
        ELSE IF flag # <<>> /\ Len(flag[1]) > 0 THEN resolveProjectFlag(flag[1], packages)
        ELSE IF skip THEN [kind |-> "returned", directories |-> all]
        ELSE IF answer = {} THEN [kind |-> "exited"]
        ELSE LET ticked(i) == i \in answer
                 chosen == SelectSeq([i \in 1..Len(packages) |-> i], ticked)
             IN  [kind |-> "returned",
                  directories |-> [k \in 1..Len(chosen) |-> all[chosen[k]]]]

SelectProjects ==
    /\ selection.kind = "pending"
    /\ \E answer \in SUBSET (1..2) :
           selection' = selectProjects(workspace, projectFlag, skipPrompts, answer)
    /\ UNCHANGED <<workspace, projectFlag, skipPrompts,
                   git, explicitBaseBranch, gitCalls, diffInfo, disk, loadResult, warnings>>
    /\ UNCHANGED <<knipVars, actionVars, discoverVars>>
    /\ UNCHANGED <<cliVars, scanVars, combineVars, scoreVars, globVars>>

\* angular.json declaring no, one or two projects ("a" in r/a, "b" in r/b); workspace
\* patterns resolving to no, one or two directories: r/p/x whose package is named "b",
\* r/p/a whose package.json has no name, r/p/c without @angular/core; --project absent
\* or a string over a, b, x, the comma and the blank
InitSelect ==
    /\ LET Package(name, dir) == [name |-> name, directory |-> dir]
           Entry(dir, name, angular) == [directory |-> dir, name |-> name, angular |-> angular]
           projectA == Package(<<"a">>, << <<"r">>, <<"a">> >>)
           projectB == Package(<<"b">>, << <<"r">>, <<"b">> >>)
           entryX == Entry(<< <<"r">>, <<"p">>, <<"x">> >>, << <<"b">> >>, TRUE)
           entryA == Entry(<< <<"r">>, <<"p">>, <<"a">> >>, <<>>, TRUE)
           entryC == Entry(<< <<"r">>, <<"p">>, <<"c">> >>, << <<"c">> >>, FALSE)
       IN  workspace \in
               [angularProjects : {<<>>, <<projectA>>, <<projectA, projectB>>,
                                   <<projectB, projectA>>},
                packageJson : BOOLEAN,
                entries : {<<>>, <<entryC>>, <<entryX>>, <<entryX, entryA>>,
                           <<entryA, entryC, entryX>>}]
    /\ projectFlag \in
           {<<>>} \cup { <<f>> : f \in UNION { [1..n -> {"a", "b", "x", ",", " "}] :
                                                 n \in 0..MaxFlagLen } }
    /\ skipPrompts \in BOOLEAN
    /\ selection = [kind |-> "pending"]
    /\ git = [head |-> <<>>, branches |-> {}, changed |-> {}, status |-> <<>>]
    /\ explicitBaseBranch = <<>> /\ gitCalls = <<>> /\ diffInfo = [kind |-> "pending"]
    /\ disk = [configFile |-> <<>>, packageJson |-> <<>>]
    /\ loadResult = [kind |-> "pending"] /\ warnings = <<>>
    /\ ScanIdle /\ CombineIdle /\ ScoreIdle /\ GlobIdle /\ KnipIdle
    /\ ActionIdle /\ DiscoverIdle

NextSelect == SelectProjects

SpecSelect == InitSelect /\ [][NextSelect]_vars

\* The packages the selection policy works on: those of angular.json when it yields
\* any, else those of the package-manager workspace
Discovered ==
    IF Len(workspace.angularProjects) > 0 THEN workspace.angularProjects
    ELSE listWorkspacePackages(workspace)

DirectoriesOf(packages) == { packages[i].directory : i \in 1..Len(packages) }

FilterPresent == projectFlag # <<>> /\ Len(projectFlag[1]) > 0

\* C17: selectProjects never returns an empty list, and the strategies have strict
\* precedence.  When no strategy yields a package the result is exactly
\* [rootDirectory].  Otherwise every returned directory is a directory of the
\* packages of angular.json if it yields any, else of the workspace patterns; a
\* not-found error lists the names of those same packages; and a non-interactive
\* run without filter returns all of them in discovery order.
C17_NonEmptyAndStrictPrecedence ==
    /\ selection.kind = "returned" => Len(selection.directories) > 0
    /\ selection.kind # "pending" /\ Len(Discovered) = 0 =>
           selection = [kind |-> "returned", directories |-> <<RootDirectory>>]
    /\ selection.kind = "returned" /\ Len(Discovered) > 0 =>
           /\ \A k \in 1..Len(selection.directories) :
                  selection.directories[k] \in DirectoriesOf(Discovered)
           /\ ~FilterPresent /\ skipPrompts =>
                  selection.directories =
                      [i \in 1..Len(Discovered) |-> Discovered[i].directory]
    /\ selection.kind = "threw" =>
           selection.available = [i \in 1..Len(Discovered) |-> Discovered[i].name]

\* Both strategies yield packages in different directories and a selection was returned
C17_Witness ==
    /\ selection.kind = "returned"
    /\ Len(workspace.angularProjects) > 0
    /\ Len(listWorkspacePackages(workspace)) > 1
    /\ Len(selection.directories) > 1

\* What the filter rule prescribes for the given tokens: the not-found error listing
\* the available names when a token equals neither the name nor the directory
\* basename of a discovered package, else for each token, in token order, the
\* directory of the first package it equals
FilterOutcome(tokens) ==
    LET found(name) == { i \in 1..Len(Discovered) :
                            \/ Discovered[i].name = name
                            \/ basename(Discovered[i].directory) = name }
    IN  IF \E k \in 1..Len(tokens) : found(tokens[k]) = {}
        THEN /\ selection.kind = "threw"
             /\ selection.available = [i \in 1..Len(Discovered) |-> Discovered[i].name]
        ELSE /\ selection.kind = "returned"
             /\ Len(selection.directories) = Len(tokens)
             /\ \A k \in 1..Len(tokens) :
                    \E i \in found(tokens[k]) :
                        /\ \A j \in found(tokens[k]) : i <= j
                        /\ selection.directories[k] = Discovered[i].directory

\* C18 as stated: whenever a filter is present, its comma-separated tokens are
\* resolved by exact match; an unmatched token fails the selection with the
\* not-found error, else the matched directories are returned in token order.
C18_FilterAlwaysResolved ==
    selection.kind # "pending" /\ FilterPresent => FilterOutcome(split(projectFlag[1]))

\* C18: when more than one package was discovered and a non-empty filter is present,
\* each comma-separated token, stripped of surrounding white space, is resolved by
\* exact match against a discovered package's name or directory basename; an
\* unmatched token fails the selection with a not-found error listing the available
\* names, else the result is the matched directories in token order.
C18_FilterResolvedAmongSeveral ==
    selection.kind # "pending" /\ FilterPresent /\ Len(Discovered) > 1 =>
        FilterOutcome(requestedNames(projectFlag[1]))

\* Two tokens were resolved to two packages in an order that is not discovery order
C18_Witness ==
    /\ selection.kind = "returned"
    /\ FilterPresent
    /\ Len(Discovered) > 1
    /\ Len(requestedNames(projectFlag[1])) = 2
    /\ selection.directories = <<Discovered[2].directory, Discovered[1].directory>>

(***************************************************************************)
(* getDiffInfo (discover-project.ts).  git is the repository the spawned   *)
(* git commands answer from: head is the output of rev-parse --abbrev-ref  *)
(* HEAD (<<>> when it fails), branches the refs rev-parse --verify         *)
(* accepts, changed[b] the lines of diff --name-only b and status the      *)
(* lines of status --porcelain, each as split("\n") yields them, the empty *)
(* piece after the last line feed included.  gitCalls logs the commands.   *)
(***************************************************************************)
DEFAULT_BRANCH_CANDIDATES == <<"main", "master">>

\* a failing git diff (here: an unknown ref) yields []; filter(Boolean) drops ""
getBranchChangedFiles(g, baseBranch) ==
    IF baseBranch \notin g.branches THEN <<>>
    ELSE LET isNonEmpty(line) == Len(line) > 0
         IN  SelectSeq(g.changed[baseBranch], isNonEmpty)

\* a failing git status (no repository) yields []
getUncommittedChangedFiles(g) ==
    IF g.head = <<>> THEN <<>>
    ELSE LET isNonEmpty(line) == Len(line) > 0
             lines == SelectSeq(g.status, isNonEmpty)
             sliced == [i \in 1..Len(lines) |-> trim(SubSeq(lines[i], 4, Len(lines[i])))]
         IN  SelectSeq(sliced, isNonEmpty)

\* the candidate loop returning the diff of the first existing candidate, empty or not
RECURSIVE firstCandidateDiff_emptyAccepted(_, _, _)
firstCandidateDiff_emptyAccepted(g, currentBranch, i) ==
    IF i > Len(DEFAULT_BRANCH_CANDIDATES) THEN [value |-> <<>>, calls |-> <<>>]
    ELSE LET candidate == DEFAULT_BRANCH_CANDIDATES[i]
             verify == << <<"verify", candidate>> >>
             rest == firstCandidateDiff_emptyAccepted(g, currentBranch, i + 1)
         IN  IF candidate \in g.branches /\ currentBranch # candidate
             THEN [value |-> <<[currentBranch |-> currentBranch, baseBranch |-> candidate,
                                changedFiles |-> getBranchChangedFiles(g, candidate),
                                isCurrentChanges |-> <<>>]>>,
                   calls |-> verify \o << <<"diff", candidate>> >>]
             ELSE [value |-> rest.value, calls |-> verify \o rest.calls]

\* the for loop over DEFAULT_BRANCH_CANDIDATES from the i-th candidate on, with the
\* final return null
RECURSIVE firstCandidateDiff(_, _, _)
firstCandidateDiff(g, currentBranch, i) ==
    IF i > Len(DEFAULT_BRANCH_CANDIDATES) THEN [value |-> <<>>, calls |-> <<>>]
    ELSE LET candidate == DEFAULT_BRANCH_CANDIDATES[i]
             verify == << <<"verify", candidate>> >>
             rest == firstCandidateDiff(g, currentBranch, i + 1)
         IN  IF candidate \in g.branches /\ currentBranch # candidate
             THEN LET changedFiles == getBranchChangedFiles(g, candidate)
                      diff == << <<"diff", candidate>> >>
                  IN  IF Len(changedFiles) > 0
                      THEN [value |-> <<[currentBranch |-> currentBranch,
                                         baseBranch |-> candidate,
                                         changedFiles |-> changedFiles,
                                         isCurrentChanges |-> <<>>]>>,
                            calls |-> verify \o diff]
                      ELSE [value |-> rest.value, calls |-> verify \o diff \o rest.calls]
             ELSE [value |-> rest.value, calls |-> verify \o rest.calls]

\* getDiffInfo answering null when the explicit base shows no changed file
getDiffInfo_emptyDiffIsNull(g, base) ==
    LET revParse == << <<"rev-parse", "HEAD">> >>
    IN  IF g.head = <<>> \/ g.head[1] = "" THEN [value |-> <<>>, calls |-> revParse]
        ELSE IF base # <<>> /\ base[1] # ""
        THEN LET calls == revParse \o << <<"verify", base[1]>> >>
                 changedFiles == getBranchChangedFiles(g, base[1])
             IN  IF base[1] \notin g.branches \/ Len(changedFiles) = 0
                 THEN [value |-> <<>>, calls |-> calls]
                 ELSE [value |-> <<[currentBranch |-> g.head[1], baseBranch |-> base[1],
                                    changedFiles |-> changedFiles,
                                    isCurrentChanges |-> <<>>]>>,
                       calls |-> calls \o << <<"diff", base[1]>> >>]
        ELSE LET uncommittedFiles == getUncommittedChangedFiles(g)
                 calls == revParse \o << <<"status", "">> >>
                 loop == firstCandidateDiff(g, g.head[1], 1)
             IN  IF Len(uncommittedFiles) > 0
                 THEN [value |-> <<[currentBranch |-> g.head[1], baseBranch |-> g.head[1],
                                    changedFiles |-> uncommittedFiles,
                                    isCurrentChanges |-> <<TRUE>>]>>,
                       calls |-> calls]
                 ELSE [value |-> loop.value, calls |-> calls \o loop.calls]

\* value is <<>> for null, else <<the DiffInfo>>; an absent isCurrentChanges is <<>>
getDiffInfo(g, base) ==
    LET revParse == << <<"rev-parse", "HEAD">> >>
    IN  IF g.head = <<>> \/ g.head[1] = "" THEN [value |-> <<>>, calls |-> revParse]
        ELSE IF base # <<>> /\ base[1] # ""
        THEN LET calls == revParse \o << <<"verify", base[1]>> >>
             IN  IF base[1] \notin g.branches THEN [value |-> <<>>, calls |-> calls]
                 ELSE [value |-> <<[currentBranch |-> g.head[1], baseBranch |-> base[1],
                                    changedFiles |-> getBranchChangedFiles(g, base[1]),
                                    isCurrentChanges |-> <<>>]>>,
                       calls |-> calls \o << <<"diff", base[1]>> >>]
        ELSE LET uncommittedFiles == getUncommittedChangedFiles(g)
                 calls == revParse \o << <<"status", "">> >>
                 loop == firstCandidateDiff(g, g.head[1], 1)
             IN  IF Len(uncommittedFiles) > 0
                 THEN [value |-> <<[currentBranch |-> g.head[1], baseBranch |-> g.head[1],
                                    changedFiles |-> uncommittedFiles,
                                    isCurrentChanges |-> <<TRUE>>]>>,
                       calls |-> calls]
                 ELSE [value |-> loop.value, calls |-> calls \o loop.calls]

GetDiffInfo ==
    /\ diffInfo.kind = "pending"
    /\ LET answer == getDiffInfo(git, explicitBaseBranch)
       IN  /\ diffInfo' = [kind |-> "returned", value |-> answer.value]
           /\ gitCalls' = answer.calls
    /\ UNCHANGED <<workspace, projectFlag, skipPrompts, selection,
                   git, explicitBaseBranch, disk, loadResult, warnings>>
    /\ UNCHANGED <<knipVars, actionVars, discoverVars>>
    /\ UNCHANGED <<cliVars, scanVars, combineVars, scoreVars, globVars>>

\* No repository, a detached HEAD, or a checked-out branch among main, master and dev;
\* a clean tree, one modified file, or an untracked and a modified file; per branch a
\* diff naming no file or one.  With a clean tree the diff against the checked-out
\* branch names no file.  --diff absent, given without a name, or naming a branch.
InitDiff ==
    /\ LET Branches == {"main", "master", "dev"}
           clean == << <<>> >>
           modified == << <<" ", "M", " ", "f">>, <<>> >>
           untracked == << <<"?", "?", " ", "g">>, <<" ", "M", " ", "f">>, <<>> >>
           noDiff == << <<>> >>
           oneFile == << <<"f">>, <<>> >>
       IN  /\ git \in [head : {<<>>, <<"HEAD">>} \cup { <<b>> : b \in Branches },
                       branches : SUBSET Branches,
                       changed : [Branches -> {noDiff, oneFile}],
                       status : {clean, modified, untracked}]
           /\ git.head = <<>> => git.branches = {} /\ git.status = clean
           /\ git.head # <<>> /\ git.head[1] \in Branches =>
                  /\ git.head[1] \in git.branches
                  /\ git.status = clean => git.changed[git.head[1]] = noDiff
    /\ explicitBaseBranch \in {<<>>, <<"">>, <<"main">>, <<"dev">>}
    /\ gitCalls = <<>>
    /\ diffInfo = [kind |-> "pending"]
    /\ workspace = [angularProjects |-> <<>>, packageJson |-> FALSE, entries |-> <<>>]
    /\ projectFlag = <<>> /\ skipPrompts = FALSE /\ selection = [kind |-> "pending"]
    /\ disk = [configFile |-> <<>>, packageJson |-> <<>>]
    /\ loadResult = [kind |-> "pending"] /\ warnings = <<>>
    /\ ScanIdle /\ CombineIdle /\ ScoreIdle /\ GlobIdle /\ KnipIdle
    /\ ActionIdle /\ DiscoverIdle

NextDiff == GetDiffInfo

SpecDiff == InitDiff /\ [][NextDiff]_vars

ExplicitBase == explicitBaseBranch # <<>> /\ explicitBaseBranch[1] # ""

\* C19: with an explicit base branch getDiffInfo returns null when the current branch
\* cannot be resolved or the base branch does not exist; otherwise it returns the
\* DiffInfo whose baseBranch is the explicit base and whose changedFiles is the diff
\* against that base, empty or not, without isCurrentChanges, and the only git
\* queries are the current branch, the existence of the base and the diff against it.
C19_ExplicitBaseDiff ==
    diffInfo.kind = "returned" /\ ExplicitBase =>
        LET base == explicitBaseBranch[1]
        IN  IF git.head = <<>> \/ base \notin git.branches
            THEN diffInfo.value = <<>>
            ELSE /\ diffInfo.value =
                        <<[currentBranch |-> git.head[1], baseBranch |-> base,
                           changedFiles |-> getBranchChangedFiles(git, base),
                           isCurrentChanges |-> <<>>]>>
                 /\ gitCalls = << <<"rev-parse", "HEAD">>, <<"verify", base>>,
                                  <<"diff", base>> >>

\* An existing explicit base without any changed file, uncommitted changes in the tree
\* and a default candidate with a non-empty diff: the empty diff is what is returned
C19_Witness ==
    /\ diffInfo.kind = "returned" /\ ExplicitBase
    /\ diffInfo.value # <<>>
    /\ diffInfo.value[1].changedFiles = <<>>
    /\ Len(getUncommittedChangedFiles(git)) > 0
    /\ \E i \in 1..Len(DEFAULT_BRANCH_CANDIDATES) :
           /\ DEFAULT_BRANCH_CANDIDATES[i] # explicitBaseBranch[1]
           /\ Len(getBranchChangedFiles(git, DEFAULT_BRANCH_CANDIDATES[i])) > 0

\* The candidates the loop may answer with: existing, not the current branch, and
\* with a non-empty diff
EligibleCandidates ==
    { i \in 1..Len(DEFAULT_BRANCH_CANDIDATES) :
        /\ DEFAULT_BRANCH_CANDIDATES[i] \in git.branches
        /\ DEFAULT_BRANCH_CANDIDATES[i] # git.head[1]
        /\ Len(getBranchChangedFiles(git, DEFAULT_BRANCH_CANDIDATES[i])) > 0 }

\* C20: without an explicit base, when the tree has uncommitted changes the result is
\* those files with isCurrentChanges and baseBranch = currentBranch, and no candidate
\* is queried; otherwise it is the diff of the first of main, master that exists,
\* is not the current branch and has a non-empty diff, or null when there is none.
\* Every non-null result here has a non-empty changedFiles.
C20_UncommittedThenCandidates ==
    diffInfo.kind = "returned" /\ ~ExplicitBase /\ git.head # <<>> =>
        LET uncommitted == getUncommittedChangedFiles(git)
            first == CHOOSE i \in EligibleCandidates : \A j \in EligibleCandidates : i <= j
        IN  /\ IF Len(uncommitted) > 0
               THEN /\ diffInfo.value =
                           <<[currentBranch |-> git.head[1], baseBranch |-> git.head[1],
                              changedFiles |-> uncommitted, isCurrentChanges |-> <<TRUE>>]>>
                    /\ \A k \in 1..Len(gitCalls) : gitCalls[k][1] \notin {"verify", "diff"}
               ELSE IF EligibleCandidates # {}
               THEN diffInfo.value =
                        <<[currentBranch |-> git.head[1],
                           baseBranch |-> DEFAULT_BRANCH_CANDIDATES[first],
                           changedFiles |->
                               getBranchChangedFiles(git, DEFAULT_BRANCH_CANDIDATES[first]),
                           isCurrentChanges |-> <<>>]>>
               ELSE diffInfo.value = <<>>
            /\ diffInfo.value # <<>> => Len(diffInfo.value[1].changedFiles) > 0

\* Uncommitted changes won although main exists, is not checked out and differs
C20_Witness ==
    /\ diffInfo.kind = "returned" /\ ~ExplicitBase /\ git.head # <<>>
    /\ 1 \in EligibleCandidates
    /\ diffInfo.value # <<>>
    /\ diffInfo.value[1].isCurrentChanges = <<TRUE>>

(***************************************************************************)
(* runKnip with findAngularWorkspaceRoot and runKnipWithOptions            *)
(* (run-knip.ts).  A directory or file is the list of its path segments    *)
(* below "/", each segment a string; <<>> is "/" itself.  Every call of    *)
(* main(options) settles: it resolves with engineIssues or rejects with    *)
(* one of EngineErrors, whichever plugins were disabled before.            *)
(***************************************************************************)
MaxIssueFiles == 2

MAX_KNIP_RETRIES == 5

Str_errorLoading == <<"E", "r", "r", "o", "r", " ", "l", "o", "a", "d", "i", "n", "g", " ">>
Str_dotConfigDot == <<".", "c", "o", "n", "f", "i", "g", ".">>
Str_knip == <<"k", "n", "i", "p">>
Str_files == <<"f", "i", "l", "e", "s">>
Str_exports == <<"e", "x", "p", "o", "r", "t", "s">>
Str_types == <<"t", "y", "p", "e", "s">>
Str_duplicates == <<"d", "u", "p", "l", "i", "c", "a", "t", "e", "s">>

\* String(error) when the config file of the plugin of that name fails to load
ConfigLoadingError(name) ==
    Str_errorLoading \o <<"/", "w", "/">> \o name \o Str_dotConfigDot \o <<"j", "s">>

\* the rejections of main(options): the config file of jest or of vite fails to load,
\* a file Jest.config.js fails to load, the engine fails for another reason
EngineErrors ==
    { ConfigLoadingError(name) :
        name \in { <<"j", "e", "s", "t">>, <<"v", "i", "t", "e">>, <<"J", "e", "s", "t">> } }
    \cup { <<"S", "y", "n", "t", "a", "x", "E", "r", "r", "o", "r">> }

\* a pattern that finds a plugin name in every rejection
extractFailedPluginName_always(error) == << <<"x">> >>

\* String(error).match(/Error loading .*\/([a-z-]+)\.config\./)?.[1] ?? null, with
\* a..z cut down to the letters of the messages: the leftmost "Error loading ", then
\* the last "/" that a run of [a-z-] and ".config." follow; <<>> is null
extractFailedPluginName(error) ==
    LET at(str, i) == i + Len(str) - 1 <= Len(error) /\ SubSeq(error, i, i + Len(str) - 1) = str
        Lower == {"a", "c", "e", "f", "g", "i", "j", "n", "o", "s", "t", "v", "-"}
        starts == { i \in 1..Len(error) : at(Str_errorLoading, i) }
        start == CHOOSE i \in starts : \A j \in starts : i <= j
        groupEnd(slash) ==
            { k \in (slash + 2)..Len(error) :
                /\ \A c \in (slash + 1)..(k - 1) : error[c] \in Lower
                /\ at(Str_dotConfigDot, k) }
        slashes(from) == { j \in from..Len(error) : error[j] = "/" /\ groupEnd(j) # {} }
    IN  IF starts = {} THEN <<>>
        ELSE LET candidates == slashes(start + Len(Str_errorLoading))
                 slash == CHOOSE j \in candidates : \A i \in candidates : i <= j
                 end == CHOOSE k \in groupEnd(slash) : TRUE
             IN  IF candidates = {} THEN <<>>
                 ELSE <<SubSeq(error, slash + 1, end - 1)>>

\* a parent that never differs from the directory it is the parent of
dirname_self(dir) == dir

\* path.dirname of an absolute path: "/" is its own parent
dirname(dir) == IF Len(dir) = 0 THEN dir ELSE SubSeq(dir, 1, Len(dir) - 1)

\* path.relative(from, to) of two absolute paths, as a list of segments: one ".." for
\* each segment of from below the common ancestor, then the rest of to
relative(from, to) ==
    LET shorter == IF Len(from) <= Len(to) THEN Len(from) ELSE Len(to)
        common == CHOOSE n \in 0..shorter :
                      /\ \A i \in 1..n : from[i] = to[i]
                      /\ n = shorter \/ from[n + 1] # to[n + 1]
    IN  [i \in 1..(Len(from) - common) |-> <<".", ".">>] \o SubSeq(to, common + 1, Len(to))

\* the segments joined by "/" into one string
RECURSIVE joinPath(_)
joinPath(segments) ==
    IF Len(segments) = 0 THEN <<>>
    ELSE IF Len(segments) = 1 THEN segments[1]
    ELSE segments[1] \o <<"/">> \o joinPath(Tail(segments))

\* the loop over the issues of one type, in runKnip for issues.files and in
\* collectIssueRecords for the three record types
collectIssueRecords(records, issueType, rootDirectory) ==
    LET filePaths == [i \in 1..Len(records) |-> joinPath(relative(rootDirectory, records[i]))]
        isKept(path) == ~StartsWith(path, <<".", ".">>)
        kept == SelectSeq(filePaths, isKept)
    IN  [i \in 1..Len(kept) |-> Diagnostic(kept[i], Str_knip, issueType, "warning")]

\* runKnip from the result of runKnipWithOptions on
collectDiagnostics(issues, rootDirectory) ==
    collectIssueRecords(issues.files, Str_files, rootDirectory)
    \o collectIssueRecords(issues.exports, Str_exports, rootDirectory)
    \o collectIssueRecords(issues.types, Str_types, rootDirectory)
    \o collectIssueRecords(issues.duplicates, Str_duplicates, rootDirectory)

\* runKnip up to the call of findAngularWorkspaceRoot
RunKnipStart ==
    /\ knipPc = "start"
    /\ IF ~nodeModules
       THEN /\ knipPc' = "returned"
            /\ knipResult' = [kind |-> "returned", diagnostics |-> <<>>]
            /\ UNCHANGED current
       ELSE /\ knipPc' = "searching"
            /\ current' = knipRoot
            /\ UNCHANGED knipResult
    /\ UNCHANGED <<knipRoot, angularJsonAt, nodeModules, engineIssues, workspaceRoot,
                   attempt, engineCalls, disabledPlugins>>
    /\ UNCHANGED <<workspace, projectFlag, skipPrompts, selection, git, explicitBaseBranch,
                   gitCalls, diffInfo, disk, loadResult, warnings>>
    /\ UNCHANGED <<actionVars, discoverVars>>
    /\ UNCHANGED <<cliVars, scanVars, combineVars, scoreVars, globVars>>

\* one pass of the while (true) of findAngularWorkspaceRoot
FindAngularWorkspaceRoot ==
    /\ knipPc = "searching"
    /\ IF current \in angularJsonAt
       THEN /\ workspaceRoot' = [kind |-> "returned", value |-> <<current>>]
            /\ knipPc' = "attempting"
            /\ UNCHANGED current
       ELSE LET parent == dirname(current)
            IN  IF parent = current
                THEN /\ workspaceRoot' = [kind |-> "returned", value |-> <<>>]
                     /\ knipPc' = "attempting"
                     /\ UNCHANGED current
                ELSE /\ current' = parent
                     /\ UNCHANGED <<workspaceRoot, knipPc>>
    /\ UNCHANGED <<knipRoot, angularJsonAt, nodeModules, engineIssues,
                   attempt, engineCalls, disabledPlugins, knipResult>>
    /\ UNCHANGED <<workspace, projectFlag, skipPrompts, selection, git, explicitBaseBranch,
                   gitCalls, diffInfo, disk, loadResult, warnings>>
    /\ UNCHANGED <<actionVars, discoverVars>>
    /\ UNCHANGED <<cliVars, scanVars, combineVars, scoreVars, globVars>>

\* one pass of the for loop of runKnipWithOptions, the throw after the loop when the
\* loop condition fails, and the rest of runKnip when main(options) resolves
KnipAttempt ==
    /\ knipPc = "attempting"
    /\ IF attempt <= MAX_KNIP_RETRIES
       THEN /\ engineCalls' = engineCalls + 1
            /\ \/ /\ knipPc' = "returned"
                  /\ knipResult' = [kind |-> "returned",
                                    diagnostics |-> collectDiagnostics(engineIssues, knipRoot)]
                  /\ UNCHANGED <<attempt, disabledPlugins>>
               \/ \E error \in EngineErrors :
                      LET failedPlugin == extractFailedPluginName(error)
                      IN  IF failedPlugin = <<>> \/ attempt = MAX_KNIP_RETRIES
                          THEN /\ knipPc' = "threw"
                               /\ knipResult' = [kind |-> "threw", error |-> error]
                               /\ UNCHANGED <<attempt, disabledPlugins>>
                          ELSE /\ disabledPlugins' = disabledPlugins \cup {failedPlugin[1]}
                               /\ attempt' = attempt + 1
                               /\ UNCHANGED <<knipPc, knipResult>>
       ELSE /\ knipPc' = "threw"
            /\ knipResult' = [kind |-> "threw",
                              error |-> <<"U", "n", "r", "e", "a", "c", "h", "a", "b", "l", "e">>]
            /\ UNCHANGED <<attempt, engineCalls, disabledPlugins>>
    /\ UNCHANGED <<knipRoot, angularJsonAt, nodeModules, engineIssues, current, workspaceRoot>>
    /\ UNCHANGED <<workspace, projectFlag, skipPrompts, selection, git, explicitBaseBranch,
                   gitCalls, diffInfo, disk, loadResult, warnings>>
    /\ UNCHANGED <<actionVars, discoverVars>>
    /\ UNCHANGED <<cliVars, scanVars, combineVars, scoreVars, globVars>>

\* The scan root /w or /w/a; angular.json in any of /, /w, /w/a; knip reporting up to
\* MaxIssueFiles unused files and at most one unused export, in the scan root /w/a,
\* in its sibling /w/a2, in its subdirectory ..c, or in /w
InitKnip ==
    /\ LET W == <<"w">>
           A == <<"a">>
           IssueFiles == { <<W, A, <<"f">>>>, <<W, <<"a", "2">>, <<"f">>>>,
                           <<W, A, <<".", ".", "c">>, <<"f">>>>, <<W, <<"f">>>> }
       IN  /\ knipRoot \in { <<W>>, <<W, A>> }
           /\ angularJsonAt \in SUBSET { <<>>, <<W>>, <<W, A>> }
           /\ engineIssues \in
                  [files : UNION { [1..n -> IssueFiles] : n \in 0..MaxIssueFiles },
                   exports : { <<>>, << <<W, A, <<".", ".", "c">>, <<"f">>>> >> },
                   types : { <<>> },
                   duplicates : { <<>> }]
    /\ nodeModules \in BOOLEAN
    /\ knipPc = "start" /\ current = <<>> /\ workspaceRoot = [kind |-> "pending"]
    /\ attempt = 0 /\ engineCalls = 0 /\ disabledPlugins = {}
    /\ knipResult = [kind |-> "pending"]
    /\ workspace = [angularProjects |-> <<>>, packageJson |-> FALSE, entries |-> <<>>]
    /\ projectFlag = <<>> /\ skipPrompts = FALSE /\ selection = [kind |-> "pending"]
    /\ git = [head |-> <<>>, branches |-> {}, changed |-> {}, status |-> <<>>]
    /\ explicitBaseBranch = <<>> /\ gitCalls = <<>> /\ diffInfo = [kind |-> "pending"]
    /\ disk = [configFile |-> <<>>, packageJson |-> <<>>]
    /\ loadResult = [kind |-> "pending"] /\ warnings = <<>>
    /\ ActionIdle /\ DiscoverIdle
    /\ ScanIdle /\ CombineIdle /\ ScoreIdle /\ GlobIdle

NextKnip == RunKnipStart \/ FindAngularWorkspaceRoot \/ KnipAttempt

SpecKnip == InitKnip /\ [][NextKnip]_vars

\* Node runs every continuation that is ready, and every call of main(options) settles
SpecKnipFair == SpecKnip /\ WF_vars(NextKnip)

\* The plugin a rejection names: jest or vite when it is the loading failure of that
\* plugin's config file, none for the other rejections
NamedPlugin(error) ==
    IF error = ConfigLoadingError(<<"j", "e", "s", "t">>) THEN << <<"j", "e", "s", "t">> >>
    ELSE IF error = ConfigLoadingError(<<"v", "i", "t", "e">>) THEN << <<"v", "i", "t", "e">> >>
    ELSE <<>>

\* In every state: main(options) ran at most MAX_KNIP_RETRIES + 1 times and once per
\* pass; an error thrown is the rejection of the last call, never "Unreachable", and
\* names a plugin only when that call was the last one permitted
RetryLoopBounded ==
    /\ engineCalls <= MAX_KNIP_RETRIES + 1
    /\ knipPc = "attempting" => attempt <= MAX_KNIP_RETRIES /\ engineCalls = attempt
    /\ knipPc = "threw" =>
           /\ knipResult.error \in EngineErrors
           /\ engineCalls = attempt + 1
           /\ NamedPlugin(knipResult.error) # <<>> => attempt = MAX_KNIP_RETRIES

\* In every step: a rejection is retried only when it names a plugin, which is then
\* disabled, and a rejection that names none ends the run by being thrown
RetryOnlyAfterDisabling ==
    /\ attempt' # attempt =>
           /\ attempt' = attempt + 1 /\ engineCalls' = engineCalls + 1
           /\ knipPc' = "attempting"
           /\ \E error \in EngineErrors :
                  /\ NamedPlugin(error) # <<>>
                  /\ disabledPlugins' = disabledPlugins \cup {NamedPlugin(error)[1]}
    /\ engineCalls' # engineCalls /\ attempt' = attempt => knipPc' \in {"returned", "threw"}

\* C21: the retry loop of runKnipWithOptions terminates; it calls the engine at most
\* MAX_KNIP_RETRIES + 1 = 6 times; it retries only after a config-loading failure that
\* names a plugin, with that plugin disabled; any other failure, and a config-loading
\* failure of the last permitted attempt, is thrown as it is; "Unreachable" is never
\* thrown.
C21_RetryLoopTerminates ==
    /\ []RetryLoopBounded
    /\ [][RetryOnlyAfterDisabling]_vars
    /\ (knipPc = "attempting") ~> (knipPc \in {"returned", "threw"})

\* The sixth call failed on a plugin config after jest and vite were both disabled
C21_Witness ==
    /\ knipPc = "threw"
    /\ engineCalls = MAX_KNIP_RETRIES + 1
    /\ NamedPlugin(knipResult.error) # <<>>
    /\ Cardinality(disabledPlugins) = 2

\* How many leading segments of the scan root name a directory with an angular.json
AngularJsonDepths ==
    { n \in 0..Len(knipRoot) : SubSeq(knipRoot, 1, n) \in angularJsonAt }

NearestWorkspaceRoot ==
    SubSeq(knipRoot, 1, CHOOSE n \in AngularJsonDepths : \A m \in AngularJsonDepths : m <= n)

\* C25: findAngularWorkspaceRoot(dir) terminates for every directory; it returns the
\* nearest directory among dir and its ancestors that contains angular.json, and
\* null if and only if none of them up to "/" contains one.
C25_NearestAngularJson ==
    /\ [](workspaceRoot.kind = "returned" =>
              IF AngularJsonDepths = {} THEN workspaceRoot.value = <<>>
              ELSE workspaceRoot.value = <<NearestWorkspaceRoot>>)
    /\ (knipPc = "searching") ~> (workspaceRoot.kind = "returned")

\* The search passed the scan root, stopped at its parent and left "/" unvisited
C25_Witness ==
    /\ workspaceRoot.kind = "returned"
    /\ workspaceRoot.value = <<dirname(knipRoot)>>
    /\ Len(knipRoot) = 2
    /\ knipRoot \notin angularJsonAt
    /\ <<>> \in angularJsonAt

\* A file lies inside the scan root when the root's segments lead to it
InsideScanRoot(file) ==
    Len(file) > Len(knipRoot) /\ SubSeq(file, 1, Len(knipRoot)) = knipRoot

\* The diagnostics of the findings of one type that lie inside the scan root, in the
\* order knip reported them, each with its path below the scan root
InsideFindings(records, issueType) ==
    LET inside == SelectSeq(records, InsideScanRoot)
    IN  [i \in 1..Len(inside) |->
            Diagnostic(joinPath(SubSeq(inside[i], Len(knipRoot) + 1, Len(inside[i]))),
                       Str_knip, issueType, "warning")]

\* C29: runKnip discards a dead-code finding if and only if its file lies outside the
\* scan root: what it returns after a run of knip is exactly the findings inside the
\* scan root, those of a sibling directory whose name starts with the scan root's
\* name being discarded like every other outside finding.
C29_DiscardedIffOutside ==
    knipResult.kind = "returned" /\ engineCalls > 0 =>
        knipResult.diagnostics =
            InsideFindings(engineIssues.files, Str_files)
            \o InsideFindings(engineIssues.exports, Str_exports)
            \o InsideFindings(engineIssues.types, Str_types)
            \o InsideFindings(engineIssues.duplicates, Str_duplicates)

(***************************************************************************)
(* scan in reporting mode on a project where ESLint reports any short list *)
(* of diagnostics: up to MaxListLen findings of rules of either severity,  *)
(* a rule being reported as an error in one file and as a warning in       *)
(* another included, and knip reports one unused file.                      *)
(***************************************************************************)
InitReport ==
    /\ flags = NoFlags /\ isDiffMode = FALSE /\ projectDiffInfo = NoDiff
    /\ directory = "project"
    /\ configAt = [d \in {"root", "project"} |-> NullConfig]
    /\ projectInfo = AngularProject
    /\ tools \in { [eslint |-> [outcome |-> "ok", findings |-> list],
                    knip |-> QuietTools.knip] : list \in ShortLists }
    /\ inputOptions \in
           { [NoOptions EXCEPT !.report = r] :
               r \in {<<>>, <<BooleanValue(TRUE)>>, <<StringValue(<<"o", "u", "t">>)>>} }
    /\ scanPc = "scan" /\ ScanFresh
    /\ CombineIdle /\ ScoreIdle /\ GlobIdle /\ ResolversIdle

SpecReport == InitReport /\ [][NextScan]_vars

\* The position of the first diagnostic of a rule key in the scan's diagnostics
FirstOccurrence(key) ==
    CHOOSE i \in 1..Len(diagnostics) :
        /\ ruleKey(diagnostics[i]) = key
        /\ \A j \in 1..(i - 1) : ruleKey(diagnostics[j]) # key

\* The groups partition the diagnostics by rule key, each in emission order; the
\* groups shown as errors (their first diagnostic is one) precede those shown as
\* warnings; groups of one severity are in the order of their first occurrence
SeverityFirstStable(groups) ==
    /\ \A i, j \in 1..Len(groups) : groups[i].key = groups[j].key => i = j
    /\ { groups[i].key : i \in 1..Len(groups) }
           = { ruleKey(diagnostics[i]) : i \in 1..Len(diagnostics) }
    /\ \A i \in 1..Len(groups) :
           LET hasKey(d) == ruleKey(d) = groups[i].key
           IN  groups[i].items = SelectSeq(diagnostics, hasKey)
    /\ \A i, j \in 1..Len(groups) :
           i < j =>
               LET first == groups[i].items[1].severity
                   second == groups[j].items[1].severity
               IN  /\ first = "warning" => second = "warning"
                   /\ first = second =>
                          FirstOccurrence(groups[i].key) < FirstOccurrence(groups[j].key)

\* C22: the rule groups a scan prints partition its diagnostics by rule key
\* plugin/rule, each group in emission order; error groups come before warning
\* groups and groups of one severity keep the order of their first occurrence; the
\* summary files and the markdown report list the groups in the same order.
C22_GroupsSeverityFirstStable ==
    scanPc = "returned" /\ Len(diagnostics) > 0 =>
        /\ SeverityFirstStable(shownGroups.terminal)
        /\ shownGroups.files = shownGroups.terminal
        /\ markdownPath # <<>> => shownGroups.markdown = shownGroups.terminal

\* Three groups were printed and written to a report, an error group ahead of two
\* warning groups that the diagnostics list had in front of it
C22_Witness ==
    /\ scanPc = "returned" /\ markdownPath # <<>>
    /\ Len(shownGroups.markdown) = 3
    /\ ruleKey(diagnostics[1]) = shownGroups.markdown[2].key
    /\ ruleKey(diagnostics[2]) = shownGroups.markdown[1].key
    /\ shownGroups.markdown[1].items[1].severity = "error"
    /\ shownGroups.markdown[2].items[1].severity = "warning"

\* The report target of the scan, <<>> when none was asked for
ReportTarget ==
    IF options.report.type = "boolean" /\ ~options.report.flag THEN <<>>
    ELSE <<options.report>>

\* C24: with a report target, every scan outside score-only mode that completes
\* writes a markdown report, with the body "No issues found." when there are no
\* diagnostics, to report.md in the output directory for the target true, to
\* report.md in the directory for a directory target, to the path itself for a
\* target with a file extension; without a report target none is written.
C24_ReportWrittenWhenRequested ==
    scanPc = "returned" /\ ~options.scoreOnly =>
        IF ReportTarget = <<>> THEN markdownReport = <<>> /\ markdownPath = <<>>
        ELSE /\ markdownReport # <<>>
             /\ Len(diagnostics) = 0 => InList("No issues found.", markdownReport)
             /\ markdownPath =
                    IF options.report.type = "boolean"
                    THEN <<Append(OutputDirectory, Str_reportMd)>>
                    ELSE IF options.report.text = <<"o", "u", "t">>
                    THEN <<DirectoryPath[directory] \o << <<"o", "u", "t">>, Str_reportMd >> >>
                    ELSE <<Append(DirectoryPath[directory], options.report.text)>>

SequentialResult ==
    LET sequential == [options EXCEPT !.scoreOnly = FALSE]
        lint == runLint(sequential, projectInfo, tools.eslint)
        deadCode == runDeadCode(sequential, tools.knip)
        all == lint.value \o deadCode.value
        filtered == IF userConfig.isNull THEN all
                    ELSE filterIgnoredDiagnostics(all, userConfig).value
    IN  [diagnostics |-> filtered,
         scoreResult |-> calculateScore(filtered),
         skippedChecks |-> (IF lint.failed THEN <<"lint">> ELSE <<>>)
                               \o (IF deadCode.failed THEN <<"dead code">> ELSE <<>>)]

\* C27: whatever the mode and the order in which the analyzers settle, scan returns
\* the ScanResult of the sequential mode for the same analyzer outcomes: the lint
\* diagnostics followed by the dead-code diagnostics, filtered, the score of that
\* list, and the skipped checks with "lint" before "dead code".
C27_SameResultInBothModes ==
    scanPc = "returned" =>
        [diagnostics |-> diagnostics, scoreResult |-> scoreResult,
         skippedChecks |-> skippedChecks] = SequentialResult

\* A score-only scan returned findings of both analyzers, lint first
C27_Witness ==
    /\ scanPc = "returned" /\ options.scoreOnly
    /\ Len(diagnostics) = 2
    /\ diagnostics[1] = tools.eslint.findings[1]
    /\ diagnostics[2] = tools.knip.findings[1]

(***************************************************************************)
(* discoverProject (discover-project.ts).  A package.json is its text as   *)
(* far as it is read: whether it parses, its name, and the version of      *)
(* @angular/core in its dependencies and in its devDependencies.           *)
(***************************************************************************)
\* a package.json that parses
Manifest(name, dependencies, devDependencies) ==
    [parses |-> TRUE, name |-> name, dependencies |-> dependencies,
     devDependencies |-> devDependencies]

\* one that does not
MalformedManifest ==
    [parses |-> FALSE, name |-> <<>>, dependencies |-> <<>>, devDependencies |-> <<>>]

\* {} when the text does not parse
readPackageJson(file) ==
    IF file.parses THEN file ELSE Manifest(<<>>, <<>>, <<>>)

\* the entry of @angular/core in the spread of dependencies and devDependencies:
\* the later spread wins
collectAllDependencies(packageJson) ==
    IF packageJson.devDependencies # <<>> THEN packageJson.devDependencies
    ELSE packageJson.dependencies

\* null is <<>>
detectAngularVersion(allDeps) == allDeps

\* path.basename of a directory below "/"
lastSegment(dir) == dir[Len(dir)]

discoverProject(dir, files) ==
    IF files[dir] = <<>> THEN [kind |-> "threw", message |-> "No package.json found"]
    ELSE LET packageJson == readPackageJson(files[dir][1])
             allDeps == collectAllDependencies(packageJson)
         IN  [kind |-> "returned",
              value |-> [rootDirectory |-> dir,
                         projectName |-> IF packageJson.name # <<>> THEN packageJson.name[1]
                                         ELSE lastSegment(dir),
                         angularVersion |-> detectAngularVersion(allDeps)]]

DiscoverProject ==
    /\ discovered.kind = "pending"
    /\ discovered' = discoverProject(discoverDirectory, manifestAt)
    /\ UNCHANGED <<manifestAt, discoverDirectory>>
    /\ UNCHANGED <<workspace, projectFlag, skipPrompts, selection, git, explicitBaseBranch,
                   gitCalls, diffInfo, disk, loadResult, warnings>>
    /\ UNCHANGED <<knipVars, actionVars>>
    /\ UNCHANGED <<cliVars, scanVars, combineVars, scoreVars, globVars>>

\* The directories /, /w, /w/projects and /w/projects/app, each with no package.json,
\* one that does not parse, one without @angular/core, or one naming it; discoverProject
\* is called on /w or below
DiscoverDirectories ==
    { <<>>, << <<"w">> >>, << <<"w">>, <<"projects">> >>,
      << <<"w">>, <<"projects">>, <<"app">> >> }

InitDiscover ==
    /\ manifestAt \in
           [DiscoverDirectories ->
                { <<>>, <<MalformedManifest>>, <<Manifest(<<>>, <<>>, <<>>)>>,
                  <<Manifest(<< <<"ws">> >>, <<"^17.0.0">>, <<>>)>>,
                  <<Manifest(<< <<"ws">> >>, <<"^17.0.0">>, <<"^16.0.0">>)>> }]
    /\ manifestAt[<<>>] \in { <<>>, <<Manifest(<<>>, <<>>, <<>>)>> }
    /\ discoverDirectory \in DiscoverDirectories \ { <<>> }
    /\ discovered = [kind |-> "pending"]
    /\ workspace = [angularProjects |-> <<>>, packageJson |-> FALSE, entries |-> <<>>]
    /\ projectFlag = <<>> /\ skipPrompts = FALSE /\ selection = [kind |-> "pending"]
    /\ git = [head |-> <<>>, branches |-> {}, changed |-> {}, status |-> <<>>]
    /\ explicitBaseBranch = <<>> /\ gitCalls = <<>> /\ diffInfo = [kind |-> "pending"]
    /\ disk = [configFile |-> <<>>, packageJson |-> <<>>]
    /\ loadResult = [kind |-> "pending"] /\ warnings = <<>>
    /\ KnipIdle /\ ActionIdle
    /\ ScanIdle /\ CombineIdle /\ ScoreIdle /\ GlobIdle

NextDiscover == DiscoverProject

SpecDiscover == InitDiscover /\ [][NextDiscover]_vars

\* the proper ancestors of a directory, and those of them that hold a package.json
AncestorsOf(dir) == { SubSeq(dir, 1, n) : n \in 0..(Len(dir) - 1) }
ManifestAncestors == { a \in AncestorsOf(discoverDirectory) : manifestAt[a] # <<>> }
NearestManifestAncestor ==
    CHOOSE a \in ManifestAncestors : \A b \in ManifestAncestors : Len(b) <= Len(a)

\* the version of @angular/core a package.json declares, <<>> if it declares none
DeclaredAngularCore(file) ==
    IF ~file.parses THEN <<>>
    ELSE IF file.devDependencies # <<>> THEN file.devDependencies
    ELSE file.dependencies

\* C23: discoverProject on a directory without a package.json of its own, below a
\* directory that has one, returns a ProjectInfo with the angularVersion of that
\* ancestor's package.json and the directory itself as rootDirectory; it throws
\* "No package.json found" only when neither the directory nor any ancestor has one
C23_FallsBackToAncestor ==
    discovered.kind # "pending" =>
        /\ (manifestAt[discoverDirectory] = <<>> /\ ManifestAncestors # {}) =>
               /\ discovered.kind = "returned"
               /\ discovered.value.rootDirectory = discoverDirectory
               /\ discovered.value.angularVersion =
                      DeclaredAngularCore(manifestAt[NearestManifestAncestor][1])
        /\ discovered.kind = "threw" =>
               /\ manifestAt[discoverDirectory] = <<>>
               /\ ManifestAncestors = {}

(***************************************************************************)
(* The action of the command (cli.ts) from the diff setting on: the diff   *)
(* mode and the loop over projectDirectories.  A diff setting is true,     *)
(* false or a string; the name of a branch is a string as in getDiffInfo.  *)
(***************************************************************************)
DiffBoolean(b) == [type |-> "boolean", flag |-> b, text |-> ""]
DiffString(str) == [type |-> "string", flag |-> FALSE, text |-> str]

\* an entry of effects; paths is the includePaths of a call of scan, <<>> for undefined
Effect(by, target, what) == [by |-> by, target |-> target, what |-> what, paths |-> <<>>]
ScanCall(target, includePaths) ==
    [by |-> "cli", target |-> target, what |-> "scan", paths |-> includePaths]

\* the answer and whether "No feature branch or uncommitted changes detected" is logged;
\* info is <<>> for null
resolveDiffMode_promptsIgnored(info, effective, shouldSkipPrompts, isScoreOnly) ==
    IF effective # <<>> /\ effective[1] # DiffBoolean(FALSE)
    THEN IF info # <<>> THEN [value |-> TRUE, warned |-> FALSE]
         ELSE [value |-> FALSE, warned |-> ~isScoreOnly]
    ELSE IF effective = <<DiffBoolean(FALSE)>> \/ info = <<>>
    THEN [value |-> FALSE, warned |-> FALSE]
    ELSE IF Len(filterSourceFiles(info[1].changedFiles)) = 0
    THEN [value |-> FALSE, warned |-> FALSE]
    ELSE [value |-> TRUE, warned |-> FALSE]

resolveDiffMode(info, effective, shouldSkipPrompts, isScoreOnly) ==
    IF effective # <<>> /\ effective[1] # DiffBoolean(FALSE)
    THEN IF info # <<>> THEN [value |-> TRUE, warned |-> FALSE]
         ELSE [value |-> FALSE, warned |-> ~isScoreOnly]
    ELSE IF effective = <<DiffBoolean(FALSE)>> \/ info = <<>>
    THEN [value |-> FALSE, warned |-> FALSE]
    ELSE IF Len(filterSourceFiles(info[1].changedFiles)) = 0
    THEN [value |-> FALSE, warned |-> FALSE]
    ELSE IF shouldSkipPrompts THEN [value |-> TRUE, warned |-> FALSE]
    ELSE [value |-> FALSE, warned |-> FALSE]

\* effectiveDiff, explicitBaseBranch, diffInfo, isDiffMode and the banner of a diff run
ResolveDiffMode ==
    /\ actionPc = "resolving"
    /\ LET effective == IF invocation.diffCli # <<>> THEN invocation.diffCli
                        ELSE invocation.diffConfig
           base == IF effective # <<>> /\ effective[1].type = "string"
                   THEN <<effective[1].text>> ELSE <<>>
           info == getDiffInfo(repositories["root"], base).value
           answer == resolveDiffMode(info, effective, invocation.shouldSkipPrompts,
                                     invocation.isScoreOnly)
       IN  /\ effectiveDiff' = effective
           /\ diffMode' = [kind |-> "resolved", explicitBaseBranch |-> base,
                           diffInfo |-> info, value |-> answer.value]
           /\ effects' =
                  (IF answer.warned THEN <<Effect("cli", "", "Running full scan.")>>
                   ELSE <<>>)
                  \o (IF answer.value /\ info # <<>> /\ ~invocation.isScoreOnly
                      THEN <<Effect("cli", "",
                                    IF info[1].isCurrentChanges = <<TRUE>>
                                    THEN "Scanning uncommitted changes"
                                    ELSE "Scanning changes")>>
                      ELSE <<>>)
    /\ actionPc' = "looping"
    /\ UNCHANGED <<invocation, repositories, position, running>>
    /\ UNCHANGED <<workspace, projectFlag, skipPrompts, selection, git, explicitBaseBranch,
                   gitCalls, diffInfo, disk, loadResult, warnings>>
    /\ UNCHANGED <<knipVars, discoverVars>>
    /\ UNCHANGED <<cliVars, scanVars, combineVars, scoreVars, globVars>>

\* the loop takes its next step without waiting for the scans it called
awaitScan_notAwaited(scans) == TRUE

\* await scan(...): the action resumes when the promise of the scan it called settles
awaitScan(scans) == scans = {}

\* one pass of the for loop up to the call of scan or the continue, or the end of the
\* loop
LoopNext ==
    /\ actionPc = "looping"
    /\ awaitScan(running)
    /\ IF position = Len(invocation.projectDirectories)
       THEN /\ actionPc' = "done"
            /\ UNCHANGED <<position, running, effects>>
       ELSE LET projectDirectory == invocation.projectDirectories[position + 1]
                info == IF diffMode.value
                        THEN getDiffInfo(repositories[projectDirectory],
                                         diffMode.explicitBaseBranch).value
                        ELSE <<>>
                changedSourceFiles == IF info = <<>> THEN <<>>
                                      ELSE filterSourceFiles(info[1].changedFiles)
                announce(what) == IF invocation.isScoreOnly THEN <<>>
                                  ELSE <<Effect("cli", projectDirectory, what)>>
            IN  /\ position' = position + 1
                /\ actionPc' = actionPc
                /\ IF info # <<>> /\ Len(changedSourceFiles) = 0
                   THEN /\ effects' = effects \o announce("skipping")
                        /\ UNCHANGED running
                   ELSE /\ effects' = effects \o announce("Scanning")
                               \o <<ScanCall(projectDirectory,
                                             IF info = <<>> THEN <<>>
                                             ELSE <<changedSourceFiles>>)>>
                        /\ running' = running \cup {projectDirectory}
    /\ UNCHANGED <<invocation, repositories, effectiveDiff, diffMode>>
    /\ UNCHANGED <<workspace, projectFlag, skipPrompts, selection, git, explicitBaseBranch,
                   gitCalls, diffInfo, disk, loadResult, warnings>>
    /\ UNCHANGED <<knipVars, discoverVars>>
    /\ UNCHANGED <<cliVars, scanVars, combineVars, scoreVars, globVars>>

\* what the scan of a directory has printed and written since it was called
OutputOf(projectDirectory) ==
    SelectSeq(effects, LAMBDA e : e.by = "scan" /\ e.target = projectDirectory)

\* scan prints its results, then, unless it only prints the score, writes the files of
\* its diagnostics if it has any
ScanOutput(projectDirectory) ==
    /\ projectDirectory \in running
    /\ \/ /\ Len(OutputOf(projectDirectory)) = 0
          /\ effects' = effects \o <<Effect("scan", projectDirectory, "terminal")>>
       \/ /\ Len(OutputOf(projectDirectory)) = 1
          /\ ~invocation.isScoreOnly
          /\ effects' = effects \o <<Effect("scan", projectDirectory, "files")>>
    /\ UNCHANGED <<invocation, repositories, actionPc, effectiveDiff, diffMode, position,
                   running>>
    /\ UNCHANGED <<workspace, projectFlag, skipPrompts, selection, git, explicitBaseBranch,
                   gitCalls, diffInfo, disk, loadResult, warnings>>
    /\ UNCHANGED <<knipVars, discoverVars>>
    /\ UNCHANGED <<cliVars, scanVars, combineVars, scoreVars, globVars>>

\* the promise of scan is fulfilled, which is after it has printed its results
ScanReturn(projectDirectory) ==
    /\ projectDirectory \in running
    /\ Len(OutputOf(projectDirectory)) > 0
    /\ running' = running \ {projectDirectory}
    /\ effects' = effects \o <<Effect("scan", projectDirectory, "returned")>>
    /\ UNCHANGED <<invocation, repositories, actionPc, effectiveDiff, diffMode, position>>
    /\ UNCHANGED <<workspace, projectFlag, skipPrompts, selection, git, explicitBaseBranch,
                   gitCalls, diffInfo, disk, loadResult, warnings>>
    /\ UNCHANGED <<knipVars, discoverVars>>
    /\ UNCHANGED <<cliVars, scanVars, combineVars, scoreVars, globVars>>

\* the promise of scan is rejected before it printed results: the catch of the action
\* hands the error to handleError, which logs it and ends the process
ScanThrow(projectDirectory) ==
    /\ actionPc = "looping"
    /\ projectDirectory \in running
    /\ Len(OutputOf(projectDirectory)) = 0
    /\ running' = {}
    /\ effects' = effects \o <<Effect("cli", projectDirectory, "error")>>
    /\ actionPc' = "exited"
    /\ UNCHANGED <<invocation, repositories, effectiveDiff, diffMode, position>>
    /\ UNCHANGED <<workspace, projectFlag, skipPrompts, selection, git, explicitBaseBranch,
                   gitCalls, diffInfo, disk, loadResult, warnings>>
    /\ UNCHANGED <<knipVars, discoverVars>>
    /\ UNCHANGED <<cliVars, scanVars, combineVars, scoreVars, globVars>>

\* what git answers in a directory: no repository; the branch feat with a.ts changed
\* against main; feat with only r.md changed against main; main with a.ts modified and
\* not committed
GitStates ==
    LET none == << <<>> >>
        source == << <<"a", ".", "t", "s">>, <<>> >>
        readme == << <<"r", ".", "m", "d">>, <<>> >>
        modified == << <<" ", "M", " ", "a", ".", "t", "s">>, <<>> >>
    IN  { [head |-> <<>>, branches |-> {}, changed |-> [b \in {"main"} |-> none],
           status |-> none],
          [head |-> <<"feat">>, branches |-> {"main", "feat"},
           changed |-> [b \in {"main"} |-> source], status |-> none],
          [head |-> <<"feat">>, branches |-> {"main", "feat"},
           changed |-> [b \in {"main"} |-> readme], status |-> none],
          [head |-> <<"main">>, branches |-> {"main"},
           changed |-> [b \in {"main"} |-> source], status |-> modified] }

\* --diff absent, given bare or with a branch; the root configuration without diff or
\* with true, false, "main" or "gone"; one project, the root itself, or two in either
\* order
InitAction ==
    /\ invocation \in
           [diffCli : { <<>>, <<DiffBoolean(TRUE)>>, <<DiffString("main")>> },
            diffConfig : { <<>>, <<DiffBoolean(TRUE)>>, <<DiffBoolean(FALSE)>>,
                           <<DiffString("main")>>, <<DiffString("gone")>> },
            shouldSkipPrompts : BOOLEAN,
            isScoreOnly : BOOLEAN,
            projectDirectories : { <<"root">>, <<"a", "b">>, <<"b", "a">> }]
    /\ repositories \in [{"root", "a", "b"} -> GitStates]
    /\ actionPc = "resolving" /\ effectiveDiff = <<>> /\ diffMode = [kind |-> "pending"]
    /\ position = 0 /\ running = {} /\ effects = <<>>
    /\ workspace = [angularProjects |-> <<>>, packageJson |-> FALSE, entries |-> <<>>]
    /\ projectFlag = <<>> /\ skipPrompts = FALSE /\ selection = [kind |-> "pending"]
    /\ git = [head |-> <<>>, branches |-> {}, changed |-> {}, status |-> <<>>]
    /\ explicitBaseBranch = <<>> /\ gitCalls = <<>> /\ diffInfo = [kind |-> "pending"]
    /\ disk = [configFile |-> <<>>, packageJson |-> <<>>]
    /\ loadResult = [kind |-> "pending"] /\ warnings = <<>>
    /\ KnipIdle /\ DiscoverIdle
    /\ ScanIdle /\ CombineIdle /\ ScoreIdle /\ GlobIdle

NextAction ==
    \/ ResolveDiffMode
    \/ LoopNext
    \/ \E projectDirectory \in {"root", "a", "b"} :
           \/ ScanOutput(projectDirectory)
           \/ ScanReturn(projectDirectory)
           \/ ScanThrow(projectDirectory)

SpecAction == InitAction /\ [][NextAction]_vars

\* the diff setting in force: the value of --diff if it was given, else the diff of
\* the root configuration, <<>> if there is neither
DiffSetting ==
    IF invocation.diffCli # <<>> THEN invocation.diffCli ELSE invocation.diffConfig

\* getDiffInfo returned a diff, and one that names a .ts file
DiffExists == diffMode.diffInfo # <<>>
DiffNamesTsFile ==
    /\ DiffExists
    /\ \E i \in DOMAIN diffMode.diffInfo[1].changedFiles :
           EndsWith(diffMode.diffInfo[1].changedFiles[i], <<".", "t", "s">>)

\* every directory the loop has taken was handed to scan, whole
FullScanSoFar ==
    /\ Len(SelectSeq(effects, LAMBDA e : e.what = "scan")) = position
    /\ \A i \in DOMAIN effects : effects[i].paths = <<>>

\* C30: once resolveDiffMode has answered, diff mode is off when the setting in force is
\* false; with the setting true or a branch name it is on exactly when getDiffInfo
\* returned a diff, and without one the run goes on as a full scan; with no setting it
\* is on exactly when a diff exists, names a .ts file and prompts are skipped
C30_DiffModeDecision ==
    diffMode.kind = "resolved" =>
        /\ DiffSetting = <<DiffBoolean(FALSE)>> => ~diffMode.value
        /\ (DiffSetting # <<>> /\ DiffSetting # <<DiffBoolean(FALSE)>>) =>
               /\ diffMode.value <=> DiffExists
               /\ ~DiffExists =>
                      /\ FullScanSoFar
                      /\ actionPc = "exited" => position > 0
        /\ DiffSetting = <<>> =>
               /\ diffMode.value <=>
                      (DiffExists /\ DiffNamesTsFile /\ invocation.shouldSkipPrompts)
               /\ ~invocation.shouldSkipPrompts => ~diffMode.value

\* a run without a diff setting and without prompts that scanned the changed files of a
\* project, and one with --diff and no diff that scanned a project whole
C30_Witness ==
    /\ diffMode.kind = "resolved" /\ DiffSetting = <<>> /\ diffMode.value
    /\ \E i \in DOMAIN effects : effects[i].what = "scan" /\ effects[i].paths # <<>>

C30_WitnessFallback ==
    /\ diffMode.kind = "resolved" /\ DiffSetting = <<DiffBoolean(TRUE)>> /\ ~DiffExists
    /\ actionPc = "done" /\ position > 0 /\ FullScanSoFar

\* the place of a directory in projectDirectories
OrderOf(target) ==
    CHOOSE i \in DOMAIN invocation.projectDirectories :
        invocation.projectDirectories[i] = target

\* the entries of effects that belong to the scan of a directory: its call, what it
\* printed and wrote, and its return
IsOfScan(e) == e.what = "scan" \/ e.by = "scan"

\* C28: the directories are taken in the order of projectDirectories, and whatever
\* belongs to the scan of one of them, its call included, comes after the return of the
\* scan of every directory whose scan was called before; never are two scans running
C28_OneTargetAtATime ==
    /\ Cardinality(running) <= 1
    /\ \A p, q \in DOMAIN effects :
           (p < q /\ effects[p].target # "" /\ effects[q].target # "") =>
               OrderOf(effects[p].target) <= OrderOf(effects[q].target)
    /\ \A p, q \in DOMAIN effects :
           (/\ p < q
            /\ effects[p].what = "scan"
            /\ IsOfScan(effects[q])
            /\ effects[q].target # effects[p].target) =>
               \E r \in (p + 1)..(q - 1) :
                   /\ effects[r].what = "returned"
                   /\ effects[r].target = effects[p].target

\* two directories scanned one after the other, each with output, the first one with
\* files written
C28_Witness ==
    /\ actionPc = "done" /\ Len(invocation.projectDirectories) = 2
    /\ Len(SelectSeq(effects, LAMBDA e : e.what = "returned")) = 2
    /\ Len(OutputOf(invocation.projectDirectories[1])) = 3

====
